---------------------------- MODULE Spec2Model ----------------------------
(***************************************************************************)
(* A model of the rx rendering engine (github.com/TroutSoftware/rx):       *)
(* the node pool and the node construction API (render.go), the            *)
(* dual-generation entity tree (render.go, etree part), the serializer     *)
(* and its byte program, the render loop of the engine (engine.go) with    *)
(* its producers and its consumer (update_js.go), and the decoder of the   *)
(* program on the Javascript side (buildView).                             *)
(*                                                                         *)
(* Go slices are sequences; Go indexes are 0-based, the model's are        *)
(* 1-based, so locate answers 0 where the code answers -1.  A *Node is     *)
(* the index of the node in the pool.  Strings are sequences of bytes.     *)
(***************************************************************************)
EXTENDS Integers, Sequences, FiniteSets, TLC

(***************************************************************************)
(* Bounds of the model.                                                    *)
(***************************************************************************)
\* nodes obtained from the pool by one Build
MaxNodes == 3
\* render cycles: the generation counter stops the model at MaxGen
MaxGen == 3
\* goroutines blocked on the Actions channel at one time
MaxPending == 1

(***************************************************************************)
(* Program constants.                                                      *)
(***************************************************************************)
OpTerm == 0
OpCreateElement == 1
OpSetClass == 2
OpSetID == 3
OpSetAttr == 4
OpAddText == 5
OpReuse == 6
OpReID == 7
OpNext == 8

Click == 1
Drop == 6

\* the intent types the model's handlers are attached to
Intents == {Click, Drop}

\* "div", "nothing", "reuse" as bytes
TagDiv == <<100, 105, 118>>
TagNothing == <<110, 111, 116, 104, 105, 110, 103>>
TagReuse == <<114, 101, 117, 115, 101>>

(***************************************************************************)
(* Small helpers on sequences.                                             *)
(***************************************************************************)
Range(s) == {s[i] : i \in DOMAIN s}

Min(a, b) == IF a < b THEN a ELSE b

Max(S) == CHOOSE x \in S : \A y \in S : y <= x

\* the Go slice expression s[lo:hi] with 0-based lo, hi
Slice(s, lo, hi) == SubSeq(s, lo + 1, hi)

(***************************************************************************)
(* Counter (engine.go).                                                    *)
(***************************************************************************)
\* a seeded counter that always steps by one
IncByOne(c) == c + 1

\* func (c *Counter) Inc() Entity { *c += 2; return Entity(*c) }
\* (Entity is a uint32; the identities of the model stay far below 2^32)
Inc(c) == c + 2

\* c.Inc() on the counter of r, a build or a pass; log is a history field:
\* the identifiers the counter has issued, in the order of the calls
Count(r) == [r EXCEPT !.cnt = Inc(@), !.log = Append(@, Inc(r.cnt))]

(***************************************************************************)
(* strconv.FormatUint(uint64(e), 10): the decimal digits, as bytes.        *)
(***************************************************************************)
RECURSIVE FormatUint(_)
FormatUint(e) ==
    IF e < 10 THEN <<48 + e>>
    ELSE Append(FormatUint(e \div 10), 48 + (e % 10))

(***************************************************************************)
(* XAS.AddInstr: the opcode, then each operand as a big-endian uint16      *)
(* length followed by the operand's bytes.                                 *)
(***************************************************************************)
\* the length written low byte first
AppendUint16LittleEndian(vm, n) ==
    vm \o << (n % 256), ((n % 65536) \div 256) >>

\* binary.BigEndian.AppendUint16(vm, uint16(n))
AppendUint16(vm, n) == vm \o << ((n % 65536) \div 256), (n % 256) >>

RECURSIVE AddOperands(_, _)
AddOperands(vm, val) ==
    IF val = << >> THEN vm
    ELSE AddOperands(AppendUint16(vm, Len(Head(val))) \o Head(val), Tail(val))

AddInstr(vm, code, val) == AddOperands(Append(vm, code), val)

(***************************************************************************)
(* intentHandler: one handler per intent type, 0 is the nil func.          *)
(***************************************************************************)
NilHdl == [t \in Intents |-> 0]

\* func (i *intentHandler) Some() bool
Some(hdl) == \E t \in Intents : hdl[t] # 0

(***************************************************************************)
(* The entity tree (etree).  A prenode is [ntt, scp, hdl]; the field up is *)
(* a history field the code does not have: the distance from the record to *)
(* the record of the nearest enclosing entity of the node tree (0 for a    *)
(* record with no enclosing entity).  Nothing in the model reads it except *)
(* the properties about spans.                                             *)
(***************************************************************************)
\* func (t *etree) locate(nt Entity) int
locate(g1, nt) ==
    IF \E i \in DOMAIN g1 : g1[i].ntt = nt
    THEN CHOOSE i \in DOMAIN g1 :
            g1[i].ntt = nt /\ \A j \in 1..(i - 1) : g1[j].ntt # nt
    ELSE 0

\* func (t *etree) children(nt Entity) []prenode
children(g1, nt) ==
    LET i == locate(g1, nt)
    IN  IF i = 0 THEN << >>
        ELSE Slice(g1, i - 1, Min(i - 1 + g1[i].scp, Len(g1)))

\* the loop of parents: j from i down to the first record
RECURSIVE parentsFrom(_, _, _)
parentsFrom(g1, i, j) ==
    IF j < 1 THEN << >>
    ELSE IF g1[j].scp + j > i
         THEN <<g1[j]>> \o parentsFrom(g1, i, j - 1)
         ELSE parentsFrom(g1, i, j - 1)

\* the chain of parents, outermost record first
parentsOutermostFirst(g1, nt) ==
    LET i == locate(g1, nt)
        c == parentsFrom(g1, i, i)
    IN  [k \in 1..Len(c) |-> c[Len(c) + 1 - k]]

\* func (t *etree) parents(nt Entity) []prenode; the caller checks locate
parents(g1, nt) ==
    LET i == locate(g1, nt) IN parentsFrom(g1, i, i)

\* an aging that keeps the records of the previous generation
ngenKeepOld(t) == [g0 |-> << >>, g1 |-> t.g1, mem |-> t.g1]

\* the builtin clear on a slice: its len(g) elements are zeroed
clear(g) == [i \in DOMAIN g |-> [ntt |-> 0, scp |-> 0, hdl |-> NilHdl, up |-> 0]]

\* func (t *etree) ngen(): t.g1, t.g0 = t.g0, t.g1[:0]; clear(t.g0).
\* The new g0 is the old g1 cut to no element, over the same array: mem is
\* what that array holds, the records of the discarded generation, of
\* which clear zeroes the first len(t.g0) = 0
ngen(t) ==
    [g0 |-> clear(Slice(t.g1, 0, 0)), g1 |-> t.g0,
     mem |-> clear(Slice(t.g1, 0, 0)) \o Slice(t.g1, 0, Len(t.g1))]


\* the fixed capacity guarded by the assertion of add
EntityCap == 10240

EmptyRecord(nt) == [ntt |-> nt, scp |-> 0, hdl |-> NilHdl, up |-> 0]

\* func (t *etree) add(nt Entity) int; the index is the new length
add(g0, nt) == Append(g0, EmptyRecord(nt))

\* func (t *etree) addHandler(hdl intentHandler)
addHandler(g0, hdl) == [g0 EXCEPT ![Len(g0)].hdl = hdl]

\* a scope closed one record short
closeScopeShort(g0, of) == [g0 EXCEPT ![of].scp = Len(g0) - of]

\* func (t *etree) closeScope(of int): len(t.g0) - of, of 0-based
closeScope(g0, of) == [g0 EXCEPT ![of].scp = Len(g0) - (of - 1)]

(***************************************************************************)
(* The state of one serialization pass: the pool (for the visited flags    *)
(* and the courtesy identities), the current generation g0, the counter,   *)
(* the program vm and err, the message of the panic that ended the pass    *)
(* ("" while it runs).  History fields, which the code does not have:      *)
(*   ins  the instructions added, as <<opcode, operands>>;                 *)
(*   pts  the entity values of g0 after each write to g0, with done: the   *)
(*        write ends an operation of the entity tree (add, reuse);         *)
(*   ren  the calls of the rename callback, as <<from, to>>;               *)
(*   spl  the reuses done: from, to, the length start of g0 and the value  *)
(*        c0 of the counter before, the entity values olds of the records  *)
(*        copied, the values ids they were given, the calls ren of the     *)
(*        callback, and the entity values after of g0 at the end.          *)
(***************************************************************************)
SerInit(nodes, g0, cnt, vm) ==
    [nodes |-> nodes, g0 |-> g0, cnt |-> cnt, vm |-> vm, err |-> "",
     ins |-> << >>, pts |-> << >>, ren |-> << >>, spl |-> << >>,
     log |-> << >>]

Ntts(g) == [i \in DOMAIN g |-> g[i].ntt]

Panic(s, msg) == [s EXCEPT !.err = msg]

\* vm = vm.AddInstr(code, val...)
Emit(s, code, val) ==
    [s EXCEPT !.vm = AddInstr(@, code, val), !.ins = Append(@, <<code, val>>)]

Snap(s, done) ==
    [s EXCEPT !.pts = Append(@, [ntts |-> Ntts(s.g0), done |-> done])]

\* the callback serialize hands to reuse
ReIDCallback(s, from, to) ==
    [Emit(s, OpReID, <<FormatUint(from), FormatUint(to)>>)
        EXCEPT !.ren = Append(@, <<from, to>>)]

\* one turn of the loop of reuse: the callback if the identity changes, then
\* t.g0[k].ntt = nt
renameOne(s, k, nt) ==
    Snap([(IF nt # s.g0[k].ntt THEN ReIDCallback(s, s.g0[k].ntt, nt) ELSE s)
             EXCEPT !.g0[k].ntt = nt], FALSE)

\* a renaming that leaves the records below the top with their old identity
RECURSIVE renameTopOnly(_, _, _, _, _)
renameTopOnly(s, start, i, n, to) ==
    IF i >= n THEN s
    ELSE IF i = 0
    THEN renameTopOnly(renameOne(s, start + 1, to), start, 1, n, to)
    ELSE renameTopOnly(Snap(s, FALSE), start, i + 1, n, to)

\* the loop of reuse over the copied records t.g0[start:]: the first is
\* given the identity to, each other one nt = c.Inc()
RECURSIVE renameLoop(_, _, _, _, _)
renameLoop(s, start, i, n, to) ==
    IF i >= n THEN s
    ELSE IF i = 0
    THEN renameLoop(renameOne(s, start + 1, to), start, 1, n, to)
    ELSE renameLoop(renameOne(Count(s), start + i + 1, Inc(s.cnt)),
                    start, i + 1, n, to)

\* the history of a reuse that took the pass from s to s2
Splice(s, s2, from, to, sub) ==
    [s2 EXCEPT !.spl = Append(@,
        [from |-> from, to |-> to, start |-> Len(s.g0), n |-> Len(sub),
         c0 |-> s.cnt, olds |-> Ntts(sub),
         ids |-> [i \in DOMAIN sub |-> s2.g0[Len(s.g0) + i].ntt],
         ren |-> SubSeq(s2.ren, Len(s.ren) + 1, Len(s2.ren)),
         after |-> Ntts(s2.g0)])]

\* t.g0 = append(t.g0, sub...), then the loop over the copied records
reuseCopy(s, sub, from, to) ==
    Snap(Splice(s,
                renameLoop(Snap([s EXCEPT !.g0 = @ \o sub], FALSE),
                           Len(s.g0), 0, Len(sub), to),
                from, to, sub),
         TRUE)

\* the records without their handlers
Bare(sub) == [i \in DOMAIN sub |-> [sub[i] EXCEPT !.hdl = NilHdl]]

\* a reuse that copies the records without their handlers
reuseDropHandlers(s, g1, from, to) ==
    reuseCopy(s, Bare(children(g1, from)), from, to)

\* func (t *etree) reuse(from, to Entity, c *Counter, it func(from, to Entity))
\* the assertion start != -1 never fails: start is a length
reuse(s, g1, from, to) == reuseCopy(s, children(g1, from), from, to)

\* the history field up of the record at idx, below the open record
SetUp(s, idx, open) ==
    IF idx > Len(s.g0) THEN s
    ELSE [s EXCEPT !.g0[idx].up = IF open = 0 THEN 0 ELSE idx - open]

RECURSIVE EmitAttrs(_, _)
EmitAttrs(s, attrs) ==
    IF attrs = << >> THEN s
    ELSE EmitAttrs(Emit(s, OpSetAttr, <<Head(attrs).Name, Head(attrs).Value>>),
                   Tail(attrs))

(***************************************************************************)
(* serialize(n, tree, ctr, vm), with g1 the previous generation and open   *)
(* the index in g0 of the record of the nearest enclosing entity (history).*)
(* A panic ends the pass: every later step leaves the state alone.         *)
(***************************************************************************)
RECURSIVE serialize(_, _, _, _)
RECURSIVE serializeChildren(_, _, _, _, _, _)

\* for _, c := range n.Children { vm = serialize(c, ...) }
serializeChildren(cs, i, s, g1, open, checked) ==
    IF s.err # "" \/ i > Len(cs) THEN s
    ELSE IF cs[i] = 0
         THEN Panic(s, IF checked THEN "nil child in node"
                                  ELSE "nil pointer dereference")
         ELSE serializeChildren(cs, i + 1, serialize(cs[i], s, g1, open),
                                g1, open, checked)

\* a reuse that closes like an element
serializeReuseNext(n, s, g1, open) ==
    Emit(SetUp(reuse(Emit(s, OpReuse, <<FormatUint(s.nodes[n].old)>>), g1,
                     s.nodes[n].old, s.nodes[n].Entity),
               Len(s.g0) + 1, open),
         OpNext, << >>)

\* the case "reuse" of serialize
serializeReuse(n, s, g1, open) ==
    SetUp(reuse(Emit(s, OpReuse, <<FormatUint(s.nodes[n].old)>>), g1,
                s.nodes[n].old, s.nodes[n].Entity),
          Len(s.g0) + 1, open)

\* a transparent node that closes like an element
serializeNothingNext(n, s, g1, open) ==
    Emit(serializeChildren(s.nodes[n].Children, 1, s, g1, open, TRUE),
         OpNext, << >>)

\* the case "nothing" of serialize
serializeNothing(n, s, g1, open) ==
    serializeChildren(s.nodes[n].Children, 1, s, g1, open, TRUE)

\* vm.AddInstr(OpCreateElement, n.TagName), and OpSetClass if there are
\* classes
elementOpen(n, s) ==
    IF Len(s.nodes[n].Classes) > 0
    THEN Emit(Emit(s, OpCreateElement, <<s.nodes[n].TagName>>),
              OpSetClass, <<s.nodes[n].Classes>>)
    ELSE Emit(s, OpCreateElement, <<s.nodes[n].TagName>>)

\* curtesy, create the entity for user
elementCurtesy(n, s) ==
    IF s.nodes[n].Entity = 0 /\ Some(s.nodes[n].hdl)
    THEN [Count(s) EXCEPT !.nodes[n].Entity = Inc(s.cnt)]
    ELSE s

\* if n.hdl.Some() { tree.addHandler(n.hdl) }
elementHandler(n, s) ==
    IF Some(s.nodes[n].hdl)
    THEN [s EXCEPT !.g0 = addHandler(@, s.nodes[n].hdl)]
    ELSE s

\* if n.Entity != 0: idx = tree.add(n.Entity), the handlers, OpSetID
elementRecord(n, s, open) ==
    IF s.nodes[n].Entity = 0 THEN s
    ELSE IF ~(s.nodes[n].Entity < EntityCap)
    THEN Panic(s, "cannot store more than 10240 entities in event handler")
    ELSE Emit(Snap(elementHandler(n,
                     SetUp([s EXCEPT !.g0 = add(@, s.nodes[n].Entity)],
                           Len(s.g0) + 1, open)),
                   TRUE),
              OpSetID, <<FormatUint(s.nodes[n].Entity)>>)

\* if n.Text != "" { vm = vm.AddInstr(OpAddText, n.Text) }
elementText(n, s) ==
    IF s.nodes[n].Text # << >> THEN Emit(s, OpAddText, <<s.nodes[n].Text>>)
    ELSE s

\* the text before the attributes
elementBodyTextFirst(n, s) ==
    IF s.err # "" THEN s ELSE EmitAttrs(elementText(n, s), s.nodes[n].Attrs)

\* the attributes, then the text
elementBody(n, s) ==
    IF s.err # "" THEN s ELSE elementText(n, EmitAttrs(s, s.nodes[n].Attrs))

\* an element that closes its scope and emits no OpNext
elementCloseNoNext(n, s, idx) ==
    IF s.err # "" THEN s
    ELSE IF s.nodes[n].Entity # 0
         THEN [s EXCEPT !.g0 = closeScope(@, idx)] ELSE s

\* if n.Entity != 0 { tree.closeScope(idx) }; return vm.AddInstr(OpNext)
elementClose(n, s, idx) ==
    IF s.err # "" THEN s
    ELSE Emit(IF s.nodes[n].Entity # 0
              THEN [s EXCEPT !.g0 = closeScope(@, idx)] ELSE s,
              OpNext, << >>)

\* the children, below the record of the element if it has one (the last
\* record of g0), and the closing
elementChildren(n, s, g1, open) ==
    elementClose(n,
                 serializeChildren(s.nodes[n].Children, 1, s, g1,
                                   IF s.nodes[n].Entity # 0 THEN Len(s.g0)
                                   ELSE open,
                                   FALSE),
                 Len(s.g0))

\* the default case of serialize: an element
serializeElement(n, s, g1, open) ==
    elementChildren(n,
        elementBody(n, elementRecord(n, elementCurtesy(n, elementOpen(n, s)),
                                     open)),
        g1, open)

\* switch n.TagName
serializeCase(n, s, g1, open) ==
    CASE s.nodes[n].TagName = << >> -> Panic(s, "empty tag name")
      [] s.nodes[n].TagName = TagNothing -> serializeNothing(n, s, g1, open)
      [] s.nodes[n].TagName = TagReuse -> serializeReuse(n, s, g1, open)
      [] OTHER -> serializeElement(n, s, g1, open)

\* a serialize without the visited check (bounded by the pool size)
serializeNoCheck(n, s, g1, open) ==
    IF s.err # "" THEN s
    ELSE IF Len(s.ins) > 4 * Len(s.nodes) + 4 THEN Panic(s, "stack overflow")
    ELSE serializeCase(n, s, g1, open)

serialize(n, s, g1, open) ==
    IF s.err # "" THEN s
    ELSE IF s.nodes[n].visited THEN Panic(s, "cycle detected")
    ELSE serializeCase(n, [s EXCEPT !.nodes[n].visited = TRUE], g1, open)


(***************************************************************************)
(* The node pool and the node construction API (render.go).  FreePool      *)
(* releases every node and GetNode hands out a slot with every field       *)
(* reset, so the pool is the sequence of the nodes of the running cycle.   *)
(* A build works on b = [nodes, cnt]: the pool and the engine's counter.   *)
(* The field given of a node is a history field: the identity of the node  *)
(* was assigned by the widget, not obtained from the counter.              *)
(***************************************************************************)
NewNode(tag) ==
    [TagName |-> tag, Classes |-> << >>, Text |-> << >>, Attrs |-> << >>,
     Children |-> << >>, Entity |-> 0, visited |-> FALSE, old |-> 0,
     hdl |-> NilHdl, given |-> FALSE]

\* func GetNode(tagname string) *Node; the node is the last of the pool
GetNode(b, tag) == [b EXCEPT !.nodes = Append(@, NewNode(tag))]

\* func FreePool()
FreePool == << >>

\* func (n *Node) GiveKey(ctx Context) *Node
GiveKey(b, n) == [Count(b) EXCEPT !.nodes[n].Entity = Inc(b.cnt)]

\* func (n *Node) OnIntent(evt IntentType, h Action) *Node
OnIntent(b, n, evt, h) ==
    IF h = 0 THEN b ELSE [b EXCEPT !.nodes[n].hdl[evt] = h]

\* func (n *Node) AddChildren(cs ...*Node) *Node
AddChildren(b, n, cs) == [b EXCEPT !.nodes[n].Children = @ \o cs]

\* func ReuseFrom(ctx Context, nt Entity) *Node
ReuseFrom(b, nt) ==
    LET b1 == GetNode(b, TagReuse)
        n == Len(b1.nodes)
    IN  GiveKey([b1 EXCEPT !.nodes[n].old = nt], n)

\* n.Entity = e, an assignment of the widget to the exported field
SetEntity(b, n, e) ==
    [b EXCEPT !.nodes[n].Entity = e, !.nodes[n].given = TRUE]

\* func (n *Node) SetText(text string) *Node
SetText(b, n, text) == [b EXCEPT !.nodes[n].Text = text]

\* func (n *Node) AddClasses(cls ...string) *Node, c the classes joined:
\* c := strings.Join(cls, " ")
AddClasses(b, n, c) ==
    [b EXCEPT !.nodes[n].Classes =
        IF b.nodes[n].Classes = << >> THEN c
        ELSE b.nodes[n].Classes \o <<32>> \o c]

\* func (n *Node) AddAttr(kv ...string) *Node, with one pair: the value of
\* an attribute of that name is replaced, a new attribute is appended
AddAttr(b, n, name, value) ==
    LET attrs == b.nodes[n].Attrs
    IN  IF \E j \in DOMAIN attrs : attrs[j].Name = name
        THEN [b EXCEPT !.nodes[n].Attrs =
                 [j \in DOMAIN attrs |->
                     IF attrs[j].Name = name
                     THEN [Name |-> name, Value |-> value] ELSE attrs[j]]]
        ELSE [b EXCEPT !.nodes[n].Attrs =
                 Append(attrs, [Name |-> name, Value |-> value])]

\* func (n *Node) AddRole(role string) *Node; "role" as bytes
StrRole == <<114, 111, 108, 101>>
AddRole(b, n, role) == AddAttr(b, n, StrRole, role)

\* func (n *Node) AddBoolAttr(key string, val bool) *Node
AddBoolAttr(b, n, key, val) ==
    IF val
    THEN [b EXCEPT !.nodes[n].Attrs = Append(@, [Name |-> key, Value |-> << >>])]
    ELSE b

\* strings.Join(cls, " ")
RECURSIVE Join(_)
Join(cls) ==
    IF cls = << >> THEN << >>
    ELSE IF Len(cls) = 1 THEN cls[1]
    ELSE cls[1] \o <<32>> \o Join(Tail(cls))

(***************************************************************************)
(* What a root widget builds.  The widget is the application's: the model  *)
(* draws it from plans, sequences of items that each obtain one node and   *)
(* append it to a node obtained before (par; the first node is the root):  *)
(*   P  an element;                                                        *)
(*   K  an element given a key, with a handler for Drop;                   *)
(*   H  an element with a handler for Click and no key;                    *)
(*   N  a transparent node;                                                *)
(*   R  a reuse of the entity old;                                         *)
(*   Q  a reuse of the entity old that asks for the identity old;          *)
(*   B  an element whose identity the widget sets to 10240;                *)
(*   X  a reuse of the entity old that asks for the identity 10240;        *)
(*   E  an element with the identity id (none, a key, a handler, a key and *)
(*      a handler) and the content fill (none, classes, a text, attributes *)
(*      or all of them).                                                   *)
(* The handler attached by the i-th item is handler i.  A plan may end by  *)
(* appending a node obtained before a second time (item S).                *)
(***************************************************************************)
\* the strings of the E items: the classes "c" and "k", the text "t", the
\* attribute names "a" and "b", the values "1" and "2"
StrC == <<99>>
StrK == <<107>>
StrT == <<116>>
StrA == <<97>>
StrB == <<98>>
Str1 == <<49>>
Str2 == <<50>>

Identities == {"none", "key", "hdl", "both"}
Fills == {"none", "cls", "txt", "att", "all"}

Identify(b, n, id) ==
    CASE id = "key" -> GiveKey(b, n)
      [] id = "hdl" -> OnIntent(b, n, Click, n)
      [] id = "both" -> OnIntent(GiveKey(b, n), n, Drop, n)
      [] OTHER -> b

\* att sets the attribute a twice: the second value replaces the first
Fill(b, n, fill) ==
    CASE fill = "cls" -> AddClasses(AddClasses(b, n, StrC), n, StrK)
      [] fill = "txt" -> SetText(b, n, StrT)
      [] fill = "att" ->
            AddAttr(AddAttr(AddAttr(b, n, StrA, Str1), n, StrB, Str2),
                    n, StrA, Str2)
      [] fill = "all" ->
            AddAttr(AddAttr(SetText(AddClasses(b, n, StrC), n, StrT),
                            n, StrB, Str1), n, StrA, Str2)
      [] OTHER -> b

ApplyItem(b, it) ==
    LET n == Len(b.nodes) + 1
        b1 == CASE it.k = "P" -> GetNode(b, TagDiv)
                [] it.k = "K" -> OnIntent(GiveKey(GetNode(b, TagDiv), n), n, Drop, n)
                [] it.k = "H" -> OnIntent(GetNode(b, TagDiv), n, Click, n)
                [] it.k = "N" -> GetNode(b, TagNothing)
                [] it.k = "R" -> ReuseFrom(b, it.old)
                [] it.k = "Q" -> SetEntity(ReuseFrom(b, it.old), n, it.old)
                [] it.k = "B" -> SetEntity(GetNode(b, TagDiv), n, EntityCap)
                [] it.k = "X" -> SetEntity(ReuseFrom(b, it.old), n, EntityCap)
                [] it.k = "E" -> Fill(Identify(GetNode(b, TagDiv), n, it.id),
                                      n, it.fill)
                [] OTHER -> b
    IN  IF it.k = "S" THEN AddChildren(b, it.par, <<it.old>>)
        ELSE IF it.par = 0 THEN b1
        ELSE AddChildren(b1, it.par, <<n>>)

RECURSIVE ApplyPlan(_, _)
ApplyPlan(b, plan) ==
    IF plan = << >> THEN b ELSE ApplyPlan(ApplyItem(b, Head(plan)), Tail(plan))

\* the items that may come at position i of a plan
Items(i, kinds, olds) ==
    LET pars == IF i = 1 THEN {0} ELSE 1..(i - 1)
    IN  {[k |-> k, par |-> p, old |-> 0] :
            k \in kinds \ {"R", "Q", "X"}, p \in pars}
        \cup {[k |-> k, par |-> p, old |-> o] :
                 k \in kinds \cap {"R", "Q", "X"}, p \in pars, o \in olds}

RECURSIVE PlansOfLen(_, _, _)
PlansOfLen(n, kinds, olds) ==
    IF n = 0 THEN {<< >>}
    ELSE {Append(pl, it) : pl \in PlansOfLen(n - 1, kinds, olds),
                           it \in Items(n, kinds, olds)}

Plans(max, kinds, olds) ==
    UNION {PlansOfLen(n, kinds, olds) : n \in 1..max}

\* the items of elements and transparent nodes at position i of a plan
ElemItems(i) ==
    LET pars == IF i = 1 THEN {0} ELSE 1..(i - 1)
    IN  {[k |-> "E", par |-> p, old |-> 0, id |-> id, fill |-> f] :
            p \in pars, id \in Identities, f \in Fills}
        \cup {[k |-> "N", par |-> p, old |-> 0] : p \in pars}

RECURSIVE ElemPlansOfLen(_)
ElemPlansOfLen(n) ==
    IF n = 0 THEN {<< >>}
    ELSE {Append(pl, it) : pl \in ElemPlansOfLen(n - 1), it \in ElemItems(n)}

\* the trees of at most max elements and transparent nodes
ElemPlans(max) == UNION {ElemPlansOfLen(n) : n \in 1..max}

\* plans of plain, transparent and reuse nodes in which one node is
\* appended a second time
SharingPlans(max, olds) ==
    UNION {{Append(pl, [k |-> "S", par |-> p, old |-> c]) :
                p \in 1..Len(pl), c \in 1..Len(pl)} :
           pl \in Plans(max, {"P", "N", "R"}, olds)}

\* the entities a reuse may name: the first and the last record of the
\* previous generation, or an entity with no record when there is none
Olds(g1) ==
    IF g1 = << >> THEN {1} ELSE {g1[1].ntt, g1[Len(g1)].ntt}

(***************************************************************************)
(* The handlers of the application.  An odd handler mutates the state and  *)
(* returns the context; an even handler is DoNothing: it returns NoAction. *)
(***************************************************************************)
Mutates(h) == h % 2 = 1

(***************************************************************************)
(* Contexts.  A Context holds a pointer vx to a vctx, a map from types to  *)
(* values: a pointer is an index in the sequence kv of the allocated maps, *)
(* 0 is nil.  A map is a function from the keys it holds to their values;  *)
(* the zero value of every type is 0.                                      *)
(***************************************************************************)
\* the types used as keys, and the values stored
Keys == {"T", "U"}
Values == {1, 2}

\* if ctx.vx == nil { ctx.vx = &vctx{kv: make(map[reflect.Type]any)} }
AllocIfNil(kv, ctx) ==
    IF ctx = 0 THEN [kv |-> Append(kv, << >>), ctx |-> Len(kv) + 1]
    ELSE [kv |-> kv, ctx |-> ctx]

\* ctx.vx.kv[reflect.TypeFor[T]()] = value; return ctx
Store(a, k, v) ==
    [kv |-> [a.kv EXCEPT ![a.ctx] =
                [x \in DOMAIN a.kv[a.ctx] \cup {k} |->
                    IF x = k THEN v ELSE a.kv[a.ctx][x]]],
     ctx |-> a.ctx]

\* func WithValue[T any](ctx Context, value T) Context, T the key k: the
\* maps after the call (kv) and the context returned (ctx)
WithValue(kv, ctx, k, v) == Store(AllocIfNil(kv, ctx), k, v)

\* func ValueOf[T any](ctx Context) T
ValueOf(kv, ctx, k) ==
    IF ctx = 0 THEN 0
    ELSE IF k \notin DOMAIN kv[ctx] THEN 0
    ELSE kv[ctx][k]

\* the mutators given to Mutate: func(t *T) { *t = 2 } and
\* func(t *T) { *t = *t%2 + 1 }, T the key k
Mutators == {"set", "bump"}

\* reflect.ValueOf(m).Call([]reflect.Value{v}); v.Elem().Interface()
Call(m, v) == IF m.f = "set" THEN 2 ELSE (v % 2) + 1

mutate1FromZero(a, m) == Store(a, m.k, Call(m, 0))

\* the body of Mutate's loop for the mutator m: v is a new T, set to the
\* stored value if there is one, m is called on it and the result is stored
mutate1(a, m) == Store(a, m.k, Call(m, ValueOf(a.kv, a.ctx, m.k)))

\* func Mutate(mutators ...any) Action, applied to ctx: ms is the sequence
\* of the mutators, applied in order; the action returns ctx
RECURSIVE Mutate(_, _, _)
Mutate(kv, ctx, ms) ==
    IF ms = << >> THEN [kv |-> kv, ctx |-> ctx]
    ELSE LET a == mutate1([kv |-> kv, ctx |-> ctx], Head(ms))
         IN Mutate(a.kv, a.ctx, Tail(ms))

\* the goroutines that share the engine's context in SpecLock
MaxProcs == 2
Procs == 1..MaxProcs

\* a goroutine outside of any call on the context
Idle ==
    [pc |-> "idle", op |-> "", k |-> "", v |-> 0, f |-> "", raced |-> FALSE,
     got |-> 0]

\* no call of WithValue or of a Mutate action yet
NoCall ==
    [c1 |-> 0, c2 |-> 0, k |-> "", v |-> 0, before |-> << >>, n |-> 0,
     op |-> "", ms |-> << >>]

(***************************************************************************)
(* The node pool (npool): a chain of chunks, each a slice nodes over an    *)
(* array of ChunkCap nodes (512 in the code), and a list of free chunks.   *)
(* A chunk is [arr, len]: the array behind its slice and the length of the *)
(* slice; mem[a][i] is what the slot i of the array a holds.               *)
(***************************************************************************)
\* the nodes of a chunk: make([]Node, 0, 512), scaled down
ChunkCap == 2

\* the arrays the pool may allocate in all
MaxChunks == 3

\* the zero Node, which a new array holds in every slot
ZeroNode == NewNode(<< >>)

\* var npool = struct{...}{flist: flist{nodes: make([]Node, 0, 512)}}
NewPool ==
    [chain |-> <<[arr |-> 1, len |-> 0]>>, free |-> << >>,
     mem |-> [a \in 1..MaxChunks |-> [i \in 1..ChunkCap |-> ZeroNode]],
     nalloc |-> 1, out |-> << >>,
     got |-> [tag |-> << >>, slot |-> << >>, node |-> ZeroNode]]

\* if len(pool.nodes) == cap(pool.nodes): the successor of the last chunk,
\* taken from the free list or made
grow(p) ==
    IF p.chain[Len(p.chain)].len # ChunkCap THEN p
    ELSE IF p.free # << >>
    THEN [p EXCEPT !.chain = Append(@, [arr |-> Head(p.free).arr, len |-> 0]),
                   !.free = Tail(@)]
    ELSE [p EXCEPT !.chain = Append(@, [arr |-> p.nalloc + 1, len |-> 0]),
                   !.nalloc = @ + 1]

\* a reset that keeps what the slot held, but for the tag
resetTagOnly(p, a, i, tag) ==
    [p EXCEPT !.mem[a][i].TagName = tag,
              !.out = Append(@, <<a, i>>),
              !.got = [tag |-> tag, slot |-> <<a, i>>,
                       node |-> [p.mem[a][i] EXCEPT !.TagName = tag]]]

\* last := &pool.nodes[len(pool.nodes)-1]; *last = Node{TagName: tagname,
\* Attrs: last.Attrs[:0], Children: last.Children[:0]}; return last
reset(p, a, i, tag) ==
    [p EXCEPT !.mem[a][i] = NewNode(tag),
              !.out = Append(@, <<a, i>>),
              !.got = [tag |-> tag, slot |-> <<a, i>>, node |-> NewNode(tag)]]

\* func GetNode(tagname string) *Node: the last chunk of the chain is
\* extended by one node
getNode(p, tag) ==
    reset(grow([p EXCEPT !.chain[Len(p.chain)].len = @ + 1]),
          p.chain[Len(p.chain)].arr, p.chain[Len(p.chain)].len + 1, tag)

\* func FreePool(): npool.free, npool.next = npool.next, nil;
\* npool.nodes = npool.nodes[:0]
freePool(p) ==
    [p EXCEPT !.free = Tail(p.chain),
              !.chain = <<[arr |-> p.chain[1].arr, len |-> 0]>>,
              !.out = << >>]

(***************************************************************************)
(* Kept entities (Keep, Reuse).  ng.k0 is a singly linked list of          *)
(* keyedEntity{next, key, val}, modelled as the sequence of its entries;   *)
(* the keys are reflect.Type values.  The field kept is a history field:   *)
(* for each key the identity of the latest Keep (0: never kept).           *)
(***************************************************************************)
\* the types used as keys
KeepKeys == {"btnKey", "rowKey", "tabKey"}

NoKept == [list |-> << >>, kept |-> [key \in KeepKeys |-> 0]]

\* for (*p) != nil && (*p).key != typ { p = &(*p).next }: the index of the
\* link p stops at, from link i on
RECURSIVE keepFind(_, _, _)
keepFind(list, typ, i) ==
    IF i > Len(list) \/ list[i].key = typ THEN i
    ELSE keepFind(list, typ, i + 1)

\* *p = &keyedEntity{key: typ, val: nd.Entity}: the link p is made to point
\* to a new entry, whose next is nil
keepLink(list, typ, val) ==
    Append(SubSeq(list, 1, keepFind(list, typ, 1) - 1),
           [key |-> typ, val |-> val])

\* if nd.Entity == 0 { nd.GiveKey(ctx) }
keepMint(b, n) == IF b.nodes[n].Entity = 0 THEN GiveKey(b, n) ELSE b

\* func Keep[T any](ctx Context, nd *Node)
Keep(b, k, typ, n) ==
    [b |-> keepMint(b, n),
     k0 |-> [list |-> keepLink(k.list, typ, keepMint(b, n).nodes[n].Entity),
             kept |-> [k.kept EXCEPT ![typ] = keepMint(b, n).nodes[n].Entity]]]

\* the Renderer at rest: mxevent: boolean = false
NoEvent ==
    [mxevent |-> FALSE, done |-> "",
     evt |-> [Gen |-> 0, Entity |-> 0, IntentType |-> 0, Cont |-> FALSE]]

\* New: ng.g0 = &vctx{kv: make(map[reflect.Type]any)}; the contexts held
\* are the engine's stored state, Context{vx: ng.g0}, and the zero Context;
\* call is a history field: the last call of WithValue, with the values
\* every held context had for every key before it
\* ml is the holder of the vctx's mutex (0: unlocked), g the goroutines
NewHeap ==
    [kv |-> << << >> >>, held |-> <<1, 0>>, call |-> NoCall,
     ml |-> 0, g |-> [p \in Procs |-> Idle]]

(***************************************************************************)
(* The state of the engine and of the goroutines around it.                *)
(*   gen, cnt, et, buf   the Engine's fields of the same name; et.mem is   *)
(*                       the array behind the slice et.g0                  *)
(*   vx                  the state behind ng.g0: the number of mutations   *)
(*   cf                  ng.CallFrame                                      *)
(*   nodes, nd           the node pool, and the root node Build returned   *)
(*   wpc, act            the worker goroutine of New and the action it     *)
(*                       took from Actions                                 *)
(*   senders             the actions of the goroutines blocked in a send   *)
(*                       on Actions                                        *)
(*   cpc, prog           the consumer (DrawAndLoop) and the program it     *)
(*                       received                                          *)
(*   jsgen               the generation of the consumer's view             *)
(*   closed              the channel XAS has been closed                   *)
(*   jspc                the JavaScript thread: it runs its event loop, or *)
(*                       it waits in JSUpdate for a continuation's reply   *)
(*   heap                the vctx maps allocated by WithValue and the      *)
(*                       contexts that point to them                       *)
(*   npool               the node pool as GetNode and FreePool keep it:    *)
(*                       the chain of chunks, the free list, the arrays of *)
(*                       the chunks; nalloc, out and got are history       *)
(*                       fields: the number of arrays allocated, the slots *)
(*                       returned since the last FreePool, the last node   *)
(*                       returned (nodes, above, is the pool seen as the   *)
(*                       sequence of the nodes obtained in a cycle)        *)
(*   k0                  the Engine's list of kept entities, ng.k0 (list), *)
(*                       and a history field (kept)                        *)
(*   shim                the Renderer of the JavaScript side: its flag     *)
(*                       mxevent and the event it is processing; done is   *)
(*                       a history field, what became of the last event    *)
(* History variables, which the code does not have:                        *)
(*   incrank             the number of executions of turncrank under way   *)
(*   ser                 the state the last serialization pass ended in    *)
(*   last                what the action of the cycle in flight did, with  *)
(*                       the generation and the state it was run at        *)
(*   hist                the numbers of programs published on XAS (pub),   *)
(*                       of buffers returned on free (ret) and of programs *)
(*                       drawn by the consumer (drawn); the identifiers    *)
(*                       the counter has issued in the running generation  *)
(*                       (issued) and in the one before (prev)             *)
(***************************************************************************)
VARIABLES gen, cnt, et, buf, vx, cf, nodes, nd, wpc, act, senders,
          cpc, prog, jsgen, incrank, ser, last, closed, jspc, hist,
          heap, shim, npool, k0

vars == <<gen, cnt, et, buf, vx, cf, nodes, nd, wpc, act, senders,
          cpc, prog, jsgen, incrank, ser, last, closed, jspc, hist, heap,
          shim, npool, k0>>

NoFrame == [Gen |-> 0, Entity |-> 0, IntentType |-> 0, Cont |-> FALSE]
NoAct == [kind |-> "none", h |-> 0, cf |-> NoFrame, at |-> 0]
NoHist == [pub |-> 0, ret |-> 0, drawn |-> 0, issued |-> << >>,
           prev |-> << >>]
NoSer == SerInit(<< >>, << >>, 0, << >>)
NoLast == [kind |-> "none", h |-> 0, hdl |-> NilHdl, res |-> "", stale |-> FALSE,
           gen |-> 0, vx |-> 0]

\* the action DrawAndLoop primes the loop with
PrimeAct == [kind |-> "prime", h |-> 0, cf |-> NoFrame, at |-> 0]
\* an action a goroutine of the application sends on Actions
AppAct(h) == [kind |-> "app", h |-> h, cf |-> NoFrame, at |-> 0]
\* the closure do of ReactToIntent; at is a history field: the generation
\* of the engine when ReactToIntent was called
IntentAct(frame) == [kind |-> "intent", h |-> 0, cf |-> frame, at |-> gen]

Init ==
    /\ gen = 0
    /\ cnt = 0
    /\ et = [g0 |-> << >>, g1 |-> << >>, mem |-> << >>]
    /\ buf = << >>
    /\ vx = 0
    /\ cf = NoFrame
    /\ nodes = << >>
    /\ nd = 0
    /\ wpc = "idle"
    /\ act = NoAct
    /\ senders = {}
    /\ cpc = "start"
    /\ prog = << >>
    /\ jsgen = 0
    /\ incrank = 0
    /\ ser = NoSer
    /\ last = NoLast
    /\ closed = FALSE
    /\ jspc = "run"
    /\ hist = NoHist
    /\ heap = NewHeap
    /\ shim = NoEvent
    /\ npool = NewPool
    /\ k0 = NoKept

Alive == wpc # "crashed"

Ents(g) == {g[i].ntt : i \in DOMAIN g}

(***************************************************************************)
(* Producers.                                                              *)
(***************************************************************************)
\* DrawAndLoop: ngx.Actions <- func(c Context) Context { ... }
DrawAndLoopPrime ==
    /\ Alive /\ cpc = "start"
    /\ senders' = senders \cup {PrimeAct}
    /\ cpc' = "priming"
    /\ UNCHANGED <<gen, cnt, et, buf, vx, cf, nodes, nd, wpc, act, prog, jsgen,
                   incrank, ser, last, closed, jspc, hist, heap, shim, npool,
                   k0>>

\* a goroutine of the application: Actions_(ctx) <- a
SendAction(h) ==
    /\ Alive
    /\ senders' = senders \cup {AppAct(h)}
    /\ UNCHANGED <<gen, cnt, et, buf, vx, cf, nodes, nd, wpc, act, cpc, prog,
                   jsgen, incrank, ser, last, closed, jspc, hist, heap, shim,
                   npool, k0>>

\* ReactToIntent(frame): ng.Actions <- Action(do)
ReactToIntent(frame) ==
    /\ Alive
    /\ senders' = senders \cup {IntentAct(frame)}
    /\ UNCHANGED <<gen, cnt, et, buf, vx, cf, nodes, nd, wpc, act, cpc, prog,
                   jsgen, incrank, ser, last, closed, jspc, hist, heap, shim,
                   npool, k0>>

\* JSUpdate with the intent Seppuku: close(ngx.XAS); the close of a closed
\* channel panics
JSUpdateSeppuku ==
    /\ Alive /\ jspc = "run"
    /\ closed' = TRUE
    /\ wpc' = IF closed THEN "crashed" ELSE wpc
    /\ UNCHANGED <<gen, cnt, et, buf, vx, cf, nodes, nd, act, senders, cpc,
                   prog, jsgen, incrank, ser, last, jspc, hist, heap, shim,
                   npool, k0>>

\* JSUpdate with another intent: go ngx.ReactToIntent(cf), and with a
\* continuation cf := <-cf.Continuation
JSUpdate(frame, cont) ==
    /\ Alive /\ jspc = "run"
    /\ senders' = senders \cup {IntentAct([frame EXCEPT !.Cont = cont])}
    /\ jspc' = IF cont THEN "wait" ELSE "run"
    /\ UNCHANGED <<gen, cnt, et, buf, vx, cf, nodes, nd, wpc, act, cpc, prog,
                   jsgen, incrank, ser, last, closed, hist, heap, shim, npool,
                   k0>>

(***************************************************************************)
(* The worker goroutine of New: for act := range ng.Actions { ... }        *)
(***************************************************************************)
\* a receive that does not wait for the cycle in flight
RecvAnytime(a) ==
    /\ Alive /\ gen < MaxGen /\ incrank < 2
    /\ a \in senders
    /\ senders' = senders \ {a}
    /\ act' = a
    /\ cpc' = IF a.kind = "prime" THEN "range" ELSE cpc
    /\ wpc' = "act"
    /\ incrank' = incrank + 1
    /\ UNCHANGED <<gen, cnt, et, buf, vx, cf, nodes, nd, prog, jsgen, ser, last,
                   closed, jspc, hist, heap, shim, npool, k0>>

\* the receive of the range loop, and the call of turncrank
Recv(a) ==
    /\ wpc = "idle" /\ gen < MaxGen
    /\ a \in senders
    /\ senders' = senders \ {a}
    /\ act' = a
    /\ cpc' = IF a.kind = "prime" THEN "range" ELSE cpc
    /\ wpc' = "act"
    /\ incrank' = incrank + 1
    /\ UNCHANGED <<gen, cnt, et, buf, vx, cf, nodes, nd, prog, jsgen, ser, last,
                   closed, jspc, hist, heap, shim, npool, k0>>


\* the random override of NoAction, switched on
noActionRandOn == TRUE

\* var noActionRandEnabled = false
noActionRandEnabled == FALSE

\* func randPick() bool: the outcomes it can have
randPick == IF ~noActionRandEnabled THEN {FALSE} ELSE BOOLEAN

\* the first record of the chain with a handler for the intent type
RECURSIVE FirstHandler(_, _)
FirstHandler(chain, typ) ==
    IF chain = << >> THEN NilHdl
    ELSE IF Head(chain).hdl[typ] # 0 THEN Head(chain).hdl
    ELSE FirstHandler(Tail(chain), typ)

\* a do that looks the handler up without comparing the generations
doNoStamp(frame, g, g1) ==
    IF locate(g1, frame.Entity) = 0
    THEN [res |-> "panic", h |-> 0, hdl |-> NilHdl, stale |-> FALSE]
    ELSE LET h == FirstHandler(parents(g1, frame.Entity), frame.IntentType)
         IN  IF h[frame.IntentType] = 0
             THEN [res |-> "NoAction", h |-> 0, hdl |-> h, stale |-> FALSE]
             ELSE [res |-> IF Mutates(h[frame.IntentType]) THEN "ctx" ELSE "NoAction",
                   h |-> h[frame.IntentType], hdl |-> h, stale |-> FALSE]

\* a do that takes an entity without a record for one without a handler
doSwallow(frame, g, g1) ==
    IF frame.Gen # g
    THEN [res |-> "ctx", h |-> 0, hdl |-> NilHdl, stale |-> TRUE]
    ELSE IF locate(g1, frame.Entity) = 0
    THEN [res |-> "NoAction", h |-> 0, hdl |-> NilHdl, stale |-> FALSE]
    ELSE LET h == FirstHandler(parents(g1, frame.Entity), frame.IntentType)
         IN  IF h[frame.IntentType] = 0
             THEN [res |-> "NoAction", h |-> 0, hdl |-> h, stale |-> FALSE]
             ELSE [res |-> IF Mutates(h[frame.IntentType]) THEN "ctx" ELSE "NoAction",
                   h |-> h[frame.IntentType], hdl |-> h, stale |-> FALSE]

\* the closure do of ReactToIntent, run by turncrank at generation g:
\* res is the context returned (or "panic"), h the handler invoked (0: none)
do(frame, g, g1) ==
    IF frame.Gen # g
    THEN [res |-> "ctx", h |-> 0, hdl |-> NilHdl, stale |-> TRUE]
    ELSE IF locate(g1, frame.Entity) = 0
    THEN [res |-> "panic", h |-> 0, hdl |-> NilHdl, stale |-> FALSE]
    ELSE LET h == FirstHandler(parents(g1, frame.Entity), frame.IntentType)
         IN  IF h[frame.IntentType] = 0
             THEN [res |-> "NoAction", h |-> 0, hdl |-> h, stale |-> FALSE]
             ELSE [res |-> IF Mutates(h[frame.IntentType]) THEN "ctx" ELSE "NoAction",
                   h |-> h[frame.IntentType], hdl |-> h, stale |-> FALSE]

\* ctx := act(Context{ng: ng, vx: ng.g0})
RunAction(a, g, g1) ==
    CASE a.kind = "intent" -> do(a.cf, g, g1)
      [] a.kind = "app" ->
            [res |-> IF Mutates(a.h) THEN "ctx" ELSE "NoAction",
             h |-> a.h, hdl |-> NilHdl, stale |-> FALSE]
      [] OTHER -> [res |-> "ctx", h |-> 0, hdl |-> NilHdl, stale |-> FALSE]

\* turncrank, lines 118-125: run the action; NoAction ends the cycle
Act ==
    /\ wpc = "act"
    /\ LET r == RunAction(act, gen, et.g1)
       IN  /\ last' = [kind |-> act.kind, h |-> r.h, hdl |-> r.hdl,
                       res |-> r.res, stale |-> r.stale, gen |-> gen, vx |-> vx]
           /\ cf' = IF act.kind = "intent" /\ ~r.stale THEN act.cf ELSE cf
           /\ vx' = IF r.h # 0 /\ Mutates(r.h) THEN vx + 1 ELSE vx
           /\ \E pick \in randPick :
                IF r.res = "panic"
                THEN wpc' = "crashed" /\ incrank' = incrank
                ELSE IF r.res = "NoAction" /\ ~pick
                THEN wpc' = "cont" /\ incrank' = incrank - 1
                ELSE wpc' = "build" /\ incrank' = incrank
    /\ UNCHANGED <<gen, cnt, et, buf, nodes, nd, act, senders, cpc, prog, jsgen,
                   ser, closed, jspc, hist, heap, shim, npool, k0>>

\* turncrank, line 127: nd := ng.Root.Build(ctx), a plan of the set plans
Build(plans) ==
    /\ wpc = "build"
    /\ \E plan \in plans :
         LET b == ApplyPlan([nodes |-> nodes, cnt |-> cnt, log |-> hist.issued],
                            plan)
         IN  /\ nodes' = b.nodes
             /\ cnt' = b.cnt
             /\ hist' = [hist EXCEPT !.issued = b.log]
    /\ nd' = 1
    /\ wpc' = "serialize"
    /\ UNCHANGED <<gen, et, buf, vx, cf, act, senders, cpc, prog, jsgen,
                   incrank, ser, last, closed, jspc, heap, shim, npool, k0>>

\* a pass that writes its records over the previous generation as well
SerializedOverOld(s) ==
    /\ ser' = s
    /\ nodes' = s.nodes
    /\ et' = [et EXCEPT !.g0 = s.g0, !.g1 = s.g0]
    /\ cnt' = s.cnt
    /\ hist' = [hist EXCEPT !.issued = s.log]
    /\ IF s.err # ""
       THEN wpc' = "crashed" /\ buf' = buf
       ELSE wpc' = "age" /\ buf' = AddInstr(s.vm, OpTerm, << >>)

\* turncrank, line 128:
\* ng.buf = serialize(nd, &ng.et, &ng.cnt, ng.buf[:0]).AddInstr(OpTerm)
\* the pass has ended in s: its panic ends the engine
Serialized(s) ==
    /\ ser' = s
    /\ nodes' = s.nodes
    /\ et' = [et EXCEPT !.g0 = s.g0]
    /\ cnt' = s.cnt
    /\ hist' = [hist EXCEPT !.issued = s.log]
    /\ IF s.err # ""
       THEN wpc' = "crashed" /\ buf' = buf
       ELSE wpc' = "age" /\ buf' = AddInstr(s.vm, OpTerm, << >>)

Serialize ==
    /\ wpc = "serialize"
    /\ Serialized(serialize(nd, [SerInit(nodes, et.g0, cnt, << >>)
                                     EXCEPT !.log = hist.issued], et.g1, 0))
    /\ UNCHANGED <<gen, vx, cf, nd, act, senders, cpc, prog, jsgen, incrank,
                   last, closed, jspc, heap, shim, npool, k0>>

\* a reseeding of the counter that forgets the parity
SeedZero(g) == 0

\* ng.cnt = Counter(ng.gen & 1)
Seed(g) == g % 2

\* turncrank, lines 130-136: age the tree, advance the generation, reseed
\* the counter, free the pool and return the program
Age ==
    /\ wpc = "age"
    /\ et' = ngen(et)
    /\ gen' = gen + 1
    /\ cnt' = Seed(gen + 1)
    /\ nodes' = FreePool
    /\ nd' = 0
    /\ ser' = NoSer
    /\ wpc' = "publish"
    /\ incrank' = incrank - 1
    /\ hist' = [hist EXCEPT !.issued = << >>, !.prev = hist.issued]
    /\ UNCHANGED <<buf, vx, cf, act, senders, cpc, prog, jsgen, last, closed,
                   jspc, heap, shim, npool, k0>>

\* a publication after which the worker does not wait for the buffer
PublishNoWait ==
    /\ wpc = "publish" /\ cpc = "range" /\ ~closed
    /\ prog' = buf
    /\ cpc' = "copy"
    /\ wpc' = "cont"
    /\ hist' = [hist EXCEPT !.pub = hist.pub + 1]
    /\ UNCHANGED <<gen, cnt, et, buf, vx, cf, nodes, nd, act, senders, jsgen,
                   incrank, ser, last, closed, jspc, heap, shim, npool, k0>>

\* line 62, ng.XAS <- xas, met by the receive of DrawAndLoop's range
Publish ==
    /\ wpc = "publish" /\ cpc = "range" /\ ~closed
    /\ prog' = buf
    /\ cpc' = "copy"
    /\ wpc' = "waitfree"
    /\ hist' = [hist EXCEPT !.pub = hist.pub + 1]
    /\ UNCHANGED <<gen, cnt, et, buf, vx, cf, nodes, nd, act, senders, jsgen,
                   incrank, ser, last, closed, jspc, heap, shim, npool, k0>>

\* line 62 when XAS is closed, or closed while the worker waits in the
\* send: panic: send on closed channel
PublishClosed ==
    /\ wpc = "publish" /\ closed
    /\ wpc' = "crashed"
    /\ UNCHANGED <<gen, cnt, et, buf, vx, cf, nodes, nd, act, senders, cpc,
                   prog, jsgen, incrank, ser, last, closed, jspc, hist, heap,
                   shim, npool, k0>>

\* DrawAndLoop: the range over XAS ends when the channel is closed
RangeEnd ==
    /\ Alive /\ cpc = "range" /\ closed
    /\ cpc' = "done"
    /\ UNCHANGED <<gen, cnt, et, buf, vx, cf, nodes, nd, wpc, act, senders,
                   prog, jsgen, incrank, ser, last, closed, jspc, hist, heap,
                   shim, npool, k0>>

\* DrawAndLoop copies the program and calls ReleaseXAS(vm): ng.free <- buf,
\* met by line 63, ng.buf = <-ng.free
ReleaseXAS ==
    /\ cpc = "copy" /\ wpc = "waitfree"
    /\ buf' = prog
    /\ cpc' = "draw"
    /\ wpc' = "cont"
    /\ hist' = [hist EXCEPT !.ret = hist.ret + 1]
    /\ UNCHANGED <<gen, cnt, et, vx, cf, nodes, nd, act, senders, prog, jsgen,
                   incrank, ser, last, closed, jspc, heap, shim, npool, k0>>

\* lines 72-76: the continuation is sent the call frame (JSUpdate, which
\* waits for it, receives it), and the call frame is cleared
Continue ==
    /\ wpc = "cont"
    /\ jspc' = IF cf.Cont THEN "run" ELSE jspc
    /\ cf' = NoFrame
    /\ act' = NoAct
    /\ last' = NoLast
    /\ wpc' = "idle"
    /\ UNCHANGED <<gen, cnt, et, buf, vx, nodes, nd, senders, cpc, prog, jsgen,
                   incrank, ser, closed, hist, heap, shim, npool, k0>>

(***************************************************************************)
(* The consumer's decoder, buildView: the instructions it reads from the   *)
(* program p, as <<opcode, operands>>; ip is 0-based as in the code.       *)
(***************************************************************************)
\* the number of loadString() calls of the case of an opcode
Operands(op) ==
    CASE op \in {OpCreateElement, OpReuse, OpSetClass, OpSetID, OpAddText} -> 1
      [] op \in {OpReID, OpSetAttr} -> 2
      [] OTHER -> 0

\* loadString, k times: a read past the end of the buffer throws
RECURSIVE loadStrings(_, _, _, _)
loadStrings(p, ip, k, acc) ==
    IF k = 0 THEN [ip |-> ip, val |-> acc, ok |-> TRUE]
    ELSE IF ip + 2 > Len(p) THEN [ip |-> ip, val |-> acc, ok |-> FALSE]
    ELSE LET len == p[ip + 1] * 256 + p[ip + 2]
         IN  IF ip + 2 + len > Len(p)
             THEN [ip |-> ip + 2, val |-> acc, ok |-> FALSE]
             ELSE loadStrings(p, ip + 2 + len, k - 1,
                              Append(acc, Slice(p, ip + 2, ip + 2 + len)))

\* while (ip < program.byteLength) { ... }
RECURSIVE buildViewLoop(_, _, _)
buildViewLoop(p, ip, ins) ==
    IF ~(ip < Len(p))
    THEN [ip |-> ip, ins |-> ins, term |-> FALSE,
          err |-> "invalid XAS code, no term instructions"]
    ELSE LET op == p[ip + 1]
         IN  IF op = OpTerm
             THEN [ip |-> ip + 1, ins |-> Append(ins, <<op, << >> >>),
                   term |-> TRUE, err |-> ""]
             ELSE LET l == loadStrings(p, ip + 1, Operands(op), << >>)
                  IN  IF ~l.ok
                      THEN [ip |-> l.ip, ins |-> ins, term |-> FALSE,
                            err |-> "RangeError"]
                      ELSE buildViewLoop(p, l.ip, Append(ins, <<op, l.val>>))

buildView(p) == buildViewLoop(p, 0, << >>)

\* DrawAndLoop: drawfn.Invoke(prog); OpTerm advances the view's generation
Draw ==
    /\ cpc = "draw"
    /\ jsgen' = IF buildView(prog).term THEN jsgen + 1 ELSE jsgen
    /\ cpc' = "range"
    /\ hist' = [hist EXCEPT !.drawn = hist.drawn + 1]
    /\ UNCHANGED <<gen, cnt, et, buf, vx, cf, nodes, nd, wpc, act, senders,
                   prog, incrank, ser, last, closed, jspc, heap, shim, npool,
                   k0>>

(***************************************************************************)
(* Spec: the engine with its producers and its consumer, the root widget   *)
(* building small trees.                                                   *)
(***************************************************************************)
\* the call frames passEvent hands to ReactToIntent: stamped with the
\* generation of the consumer's view (which trails the engine's between a
\* cycle's end and the draw of its program), on the first or the last entity
\* of the last rendered tree (on an entity without a record when the tree
\* has none)
Frames ==
    {[Gen |-> g, Entity |-> e, IntentType |-> t, Cont |-> FALSE] :
        g \in {jsgen},
        e \in Olds(et.g1),
        t \in Intents}

\* the root widget of Spec: a keyed element over one child, or a reuse of
\* the first entity of the last rendered tree
DriverPlans ==
    LET first == IF et.g1 = << >> THEN 1 ELSE et.g1[1].ntt
    IN  {pl \in Plans(2, {"K", "H", "R"}, {first}) :
            \/ Len(pl) = 2 /\ pl[1].k = "K"
            \/ Len(pl) = 1 /\ pl[1].k = "R"}

\* fewer than max goroutines are blocked in a send on Actions
Room(max) == Cardinality(senders) < max

Next ==
    \/ DrawAndLoopPrime
    \/ \E h \in {2} : Room(MaxPending) /\ SendAction(h)
    \/ \E f \in Frames : Room(MaxPending) /\ ReactToIntent(f)
    \/ \E a \in senders : Recv(a)
    \/ Act
    \/ Build(DriverPlans)
    \/ Serialize
    \/ Age
    \/ Publish
    \/ ReleaseXAS
    \/ Draw
    \/ Continue

Spec == Init /\ [][Next]_vars

(***************************************************************************)
(* SpecSer: the same engine in a quiet environment (one producer, which    *)
(* sends a mutating action when the engine and the consumer are at rest),  *)
(* the root widget building every tree of at most MaxNodes nodes, shared   *)
(* nodes included, over SerGen render cycles.                              *)
(***************************************************************************)
\* render cycles of SpecSer
SerGen == 2

\* the root widget of SpecSer
SerPlans ==
    Plans(MaxNodes, {"P", "K", "H", "N", "R", "Q"}, Olds(et.g1))
        \cup SharingPlans(MaxNodes - 1, Olds(et.g1))

SendQuiet(h) ==
    /\ wpc = "idle" /\ cpc = "range" /\ gen < SerGen /\ senders = {}
    /\ SendAction(h)

RecvSer(a) == gen < SerGen /\ Recv(a)

NextSer ==
    \/ DrawAndLoopPrime
    \/ \E h \in {1} : SendQuiet(h)
    \/ \E a \in senders : RecvSer(a)
    \/ Act
    \/ Build(SerPlans)
    \/ Serialize
    \/ Age
    \/ Publish
    \/ ReleaseXAS
    \/ Draw
    \/ Continue

SpecSer == Init /\ [][NextSer]_vars

(***************************************************************************)
(* SpecCap: the engine of SpecSer, the root widget building the trees of   *)
(* at most CapNodes nodes in which a node may carry the identity 10240,    *)
(* the capacity of the entity tree, assigned by the widget.                *)
(***************************************************************************)
CapNodes == 2

\* the root widget of SpecCap
CapPlans == Plans(CapNodes, {"K", "R", "B", "X"}, Olds(et.g1))

NextCap ==
    \/ DrawAndLoopPrime
    \/ \E h \in {1} : SendQuiet(h)
    \/ \E a \in senders : RecvSer(a)
    \/ Act
    \/ Build(CapPlans)
    \/ Serialize
    \/ Age
    \/ Publish
    \/ ReleaseXAS
    \/ Draw
    \/ Continue

SpecCap == Init /\ [][NextCap]_vars

(***************************************************************************)
(* SpecRace: the engine under RacePending goroutines that send actions and *)
(* call ReactToIntent at any time, the root widget building one tree, over *)
(* RaceGen render cycles.                                                  *)
(***************************************************************************)
\* goroutines blocked on the Actions channel at one time, in SpecRace
RacePending == 3

\* render cycles of SpecRace
RaceGen == 2

\* the root widget of SpecRace: a keyed element over an element with a
\* handler
RacePlans == {pl \in DriverPlans : Len(pl) = 2 /\ pl[2].k = "H"}

\* the call frames of SpecRace: clicks on the last entity
RaceFrames ==
    {f \in Frames : f.IntentType = Click /\ f.Entity = Max(Olds(et.g1))}

RecvRace(a) == gen < RaceGen /\ Recv(a)

NextRace ==
    \/ DrawAndLoopPrime
    \/ \E h \in {1, 2} : Room(RacePending) /\ SendAction(h)
    \/ \E f \in RaceFrames : Room(RacePending) /\ ReactToIntent(f)
    \/ \E a \in senders : RecvRace(a)
    \/ Act
    \/ Build(RacePlans)
    \/ Serialize
    \/ Age
    \/ Publish
    \/ ReleaseXAS
    \/ Draw
    \/ Continue

SpecRace == Init /\ [][NextRace]_vars

(***************************************************************************)
(* SpecJS: the engine driven by the JavaScript side through JSUpdate:      *)
(* interactions with and without a continuation, and Seppuku, over JSGen   *)
(* render cycles.                                                          *)
(***************************************************************************)
\* render cycles of SpecJS
JSGen == 2

RecvJS(a) == gen < JSGen /\ Recv(a)

NextJS ==
    \/ DrawAndLoopPrime
    \/ JSUpdateSeppuku
    \/ \E f \in Frames, c \in BOOLEAN : Room(MaxPending) /\ JSUpdate(f, c)
    \/ \E a \in senders : RecvJS(a)
    \/ Act
    \/ Build(DriverPlans)
    \/ Serialize
    \/ Age
    \/ Publish
    \/ PublishClosed
    \/ RangeEnd
    \/ ReleaseXAS
    \/ Draw
    \/ Continue

SpecJS == Init /\ [][NextJS]_vars

(***************************************************************************)
(* SpecShim: the engine driven through the Renderer's passEvent, while     *)
(* goroutines of the application send actions (the generation changes from *)
(* Go, without JS calls).  passEvent captures this.gen when the event is   *)
(* raised, then awaits buildJSWorld and activeModule: draws run on the     *)
(* JavaScript thread in between.  The root widget builds one tree, over    *)
(* RaceGen render cycles.                                                  *)
(***************************************************************************)
\* passEvent up to sched(): const gen = this.gen; the event is ignored when
\* another one is being processed; this.mxevent = true; evt = {gen, ..}
passEvent(frame) ==
    /\ Alive /\ jspc = "run"
    /\ ~shim.mxevent
    /\ shim' = [mxevent |-> TRUE, done |-> "", evt |-> frame]
    /\ UNCHANGED <<gen, cnt, et, buf, vx, cf, nodes, nd, wpc, act, senders, cpc,
                   prog, jsgen, incrank, ser, last, closed, jspc, hist, heap,
                   npool, k0>>

\* sched() without the comparison of the generations
passEventSchedNoCheck(cont) ==
    /\ Alive /\ jspc = "run"
    /\ shim.mxevent
    /\ senders' = senders \cup {IntentAct([shim.evt EXCEPT !.Cont = cont])}
    /\ jspc' = IF cont THEN "wait" ELSE "run"
    /\ shim' = [NoEvent EXCEPT !.done = "updateGo", !.evt = shim.evt]
    /\ UNCHANGED <<gen, cnt, et, buf, vx, cf, nodes, nd, wpc, act, cpc, prog,
                   jsgen, incrank, ser, last, closed, hist, heap, npool, k0>>

\* sched() after its awaits: if (evt.gen === this.gen) this.updateGo(..),
\* which is JSUpdate, with or without a continuation; else the event is
\* dropped; finally this.mxevent = false
passEventSched(cont) ==
    /\ Alive /\ jspc = "run"
    /\ shim.mxevent
    /\ IF shim.evt.Gen = jsgen
       THEN /\ senders' = senders \cup {IntentAct([shim.evt EXCEPT !.Cont = cont])}
            /\ jspc' = IF cont THEN "wait" ELSE "run"
            /\ shim' = [NoEvent EXCEPT !.done = "updateGo", !.evt = shim.evt]
       ELSE /\ UNCHANGED <<senders, jspc, npool, k0>>
            /\ shim' = [NoEvent EXCEPT !.done = "drop", !.evt = shim.evt]
    /\ UNCHANGED <<gen, cnt, et, buf, vx, cf, nodes, nd, wpc, act, cpc, prog,
                   jsgen, incrank, ser, last, closed, hist, heap, npool, k0>>

NextShim ==
    \/ DrawAndLoopPrime
    \/ \E h \in {2} : Room(MaxPending) /\ SendAction(h)
    \/ \E f \in RaceFrames : passEvent(f)
    \/ \E c \in BOOLEAN : Room(MaxPending) /\ passEventSched(c)
    \/ \E a \in senders : RecvRace(a)
    \/ Act
    \/ Build(RacePlans)
    \/ Serialize
    \/ Age
    \/ Publish
    \/ ReleaseXAS
    \/ Draw
    \/ Continue

SpecShim == Init /\ [][NextShim]_vars

(***************************************************************************)
(* SpecInstr: instructions are added to a program, ng.buf, with operands   *)
(* of short and of long lengths, around the largest length 16 bits hold.   *)
(* The long operands are given to the first instruction of a program only, *)
(* and instructions are added while the program has fewer than MaxXAS      *)
(* bytes.                                                                  *)
(***************************************************************************)
MaxXAS == 9

\* the string of n bytes "a"
Rep(n) == [i \in 1..n |-> 97]

\* the operand lists of the instructions added: one operand (a class, a
\* text) or two (an attribute)
OperandLists(lens) ==
    {<<Rep(n)>> : n \in lens} \cup {<<Rep(n), Rep(m)>> : n \in {1}, m \in lens}

ShortLens == {0, 1, 2}
LongLens == {65535, 65536, 65537}

\* vm = vm.AddInstr(code, val...)
XASAddInstr(code, val) ==
    /\ Len(buf) < MaxXAS
    /\ buf' = AddInstr(buf, code, val)
    /\ UNCHANGED <<gen, cnt, et, vx, cf, nodes, nd, wpc, act, senders, cpc,
                   prog, jsgen, incrank, ser, last, closed, jspc, hist, heap,
                   shim, npool, k0>>

NextInstr ==
    \/ \E code \in {OpSetClass, OpAddText}, val \in OperandLists(ShortLens) :
            Len(val) = 1 /\ XASAddInstr(code, val)
    \/ \E val \in OperandLists(ShortLens) :
            Len(val) = 2 /\ XASAddInstr(OpSetAttr, val)
    \/ \E val \in OperandLists(LongLens) :
            /\ buf = << >>
            /\ XASAddInstr(IF Len(val) = 1 THEN OpAddText ELSE OpSetAttr, val)

SpecInstr == Init /\ [][NextInstr]_vars

(***************************************************************************)
(* SpecCtx: MaxCalls calls c2 = WithValue(c1, v), c1 any context held so   *)
(* far (the engine's stored state, the zero Context, the results of the    *)
(* earlier calls), on the keys and values above.                           *)
(***************************************************************************)
\* calls of WithValue in SpecCtx
MaxCalls == 3

\* the value every held context has for every key
Reads(h) ==
    [i \in DOMAIN h.held |-> [k \in Keys |-> ValueOf(h.kv, h.held[i], k)]]

Called(h, i, k, v, r) ==
    [h EXCEPT
        !.kv = r.kv,
        !.held = Append(h.held, r.ctx),
        !.call = [c1 |-> i, c2 |-> Len(h.held) + 1, k |-> k, v |-> v,
                  before |-> Reads(h), n |-> h.call.n + 1,
                  op |-> "WithValue", ms |-> << >>]]

\* c2 = WithValue(c1, v), c1 the i-th context held
CallWithValue(i, k, v) ==
    /\ heap.call.n < MaxCalls
    /\ heap' = Called(heap, i, k, v, WithValue(heap.kv, heap.held[i], k, v))
    /\ UNCHANGED <<gen, cnt, et, buf, vx, cf, nodes, nd, wpc, act, senders, cpc,
                   prog, jsgen, incrank, ser, last, closed, jspc, hist, shim,
                   npool, k0>>

NextCtx ==
    \E i \in DOMAIN heap.held, k \in Keys, v \in Values : CallWithValue(i, k, v)

SpecCtx == Init /\ [][NextCtx]_vars

(***************************************************************************)
(* SpecMut: MaxCalls calls, of WithValue as in SpecCtx or of the action    *)
(* Mutate(m1, .., mn), n <= MaxMutators, on a context held so far.  On the *)
(* zero Context the action reaches ctx.vx.ml.Lock() with a nil ctx.vx and  *)
(* panics on the nil pointer.                                              *)
(***************************************************************************)
\* mutators given to one Mutate
MaxMutators == 2

\* the sequences of at most n mutators
RECURSIVE MutatorSeqs(_)
MutatorSeqs(n) ==
    IF n = 0 THEN {<< >>}
    ELSE LET s == MutatorSeqs(n - 1)
         IN s \cup {Append(ms, m) : ms \in s, m \in [k : Keys, f : Mutators]}

\* a step of a call on a context: the heap becomes h, the engine is not
\* involved
LockStep(h) ==
    /\ heap' = h
    /\ UNCHANGED <<gen, cnt, et, buf, vx, cf, nodes, nd, wpc, act, senders, cpc,
                   prog, jsgen, incrank, ser, last, closed, jspc, hist, shim,
                   npool, k0>>

\* c2 = Mutate(ms...)(c1), c1 the i-th context held
CallMutate(i, ms) ==
    /\ heap.call.n < MaxCalls
    /\ LockStep(
        IF heap.held[i] = 0 /\ ms # << >>
        THEN [heap EXCEPT !.call =
                [NoCall EXCEPT !.c1 = i, !.n = heap.call.n + 1, !.op = "panic",
                               !.ms = ms, !.before = Reads(heap)]]
        ELSE [heap EXCEPT
                !.kv = Mutate(heap.kv, heap.held[i], ms).kv,
                !.held = Append(heap.held, Mutate(heap.kv, heap.held[i], ms).ctx),
                !.call = [NoCall EXCEPT !.c1 = i, !.c2 = Len(heap.held) + 1,
                            !.n = heap.call.n + 1, !.op = "Mutate",
                            !.ms = ms, !.before = Reads(heap)]])

NextMut ==
    \/ \E i \in DOMAIN heap.held, k \in Keys, v \in Values :
            CallWithValue(i, k, v)
    \/ \E i \in DOMAIN heap.held, ms \in MutatorSeqs(MaxMutators) :
            CallMutate(i, ms)

SpecMut == Init /\ [][NextMut]_vars

(***************************************************************************)
(* SpecLock: MaxProcs goroutines call WithValue, Mutate (of one mutator)   *)
(* and ValueOf on the engine's context, Context{vx: ng.g0}.  WithValue and *)
(* Mutate take ctx.vx.ml around their accesses to the map, ValueOf reads   *)
(* vx.kv with no lock.  An access to the map takes time: it begins         *)
(* (GoAccess) and ends (GoAccessed).  A read that overlaps a write is a    *)
(* data race on a Go map: the runtime throws "concurrent map read and map  *)
(* write", or the read yields any value.                                   *)
(***************************************************************************)
\* the calls a goroutine makes
GoCalls ==
    [op : {"WithValue"}, k : Keys, v : Values, f : {""}]
        \cup [op : {"Mutate"}, k : Keys, v : {0}, f : Mutators]
        \cup [op : {"ValueOf"}, k : Keys, v : {0}, f : {""}]

\* the goroutines in the middle of an access of the given kind
Accessing(h, pc) == {p \in Procs : h.g[p].pc = pc}

\* no goroutine was killed by the runtime
Running(h) == \A p \in Procs : h.g[p].pc # "fatal"

\* a goroutine enters WithValue or Mutate (next: ctx.vx.ml.Lock()) or
\* ValueOf (next: vx.kv[reflect.TypeFor[T]()])
GoCall(p, c) ==
    /\ Running(heap)
    /\ heap.g[p].pc = "idle"
    /\ LockStep([heap EXCEPT !.g[p] =
            [pc |-> IF c.op = "ValueOf" THEN "read" ELSE "lock",
             op |-> c.op, k |-> c.k, v |-> c.v, f |-> c.f, raced |-> FALSE,
             got |-> 0]])

\* ctx.vx.ml.Lock()
GoLock(p) ==
    /\ Running(heap)
    /\ heap.g[p].pc = "lock"
    /\ heap.ml = 0
    /\ LockStep([heap EXCEPT !.ml = p, !.g[p].pc = "write"])

\* the access to the map begins: the reads under way race with a write
\* that begins, a read that begins races with the writes under way
GoAccess(p) ==
    /\ Running(heap)
    /\ heap.g[p].pc \in {"read", "write"}
    /\ LockStep([heap EXCEPT !.g =
            [q \in Procs |->
                IF q = p
                THEN [heap.g[p] EXCEPT
                        !.pc = IF @ = "read" THEN "reading" ELSE "writing",
                        !.raced = heap.g[p].pc = "read"
                                    /\ Accessing(heap, "writing") # {}]
                ELSE IF heap.g[p].pc = "write" /\ heap.g[q].pc = "reading"
                THEN [heap.g[q] EXCEPT !.raced = TRUE]
                ELSE heap.g[q]]])

\* the map after the write of the goroutine p
Written(h, p) ==
    IF h.g[p].op = "WithValue" THEN WithValue(h.kv, 1, h.g[p].k, h.g[p].v).kv
    ELSE Mutate(h.kv, 1, <<h.g[p]>>).kv

\* the access to the map ends: the write is done; the read returns the
\* value of the key, or, after a race, dies or returns anything
GoAccessed(p, fatal, any) ==
    /\ Running(heap)
    /\ heap.g[p].pc \in {"reading", "writing"}
    /\ \/ /\ heap.g[p].pc = "writing"
          /\ LockStep([heap EXCEPT !.kv = Written(heap, p),
                                   !.g[p].pc = "unlock"])
       \/ /\ heap.g[p].pc = "reading"
          /\ ~heap.g[p].raced
          /\ LockStep([heap EXCEPT
                !.g[p].pc = "idle",
                !.g[p].got = ValueOf(heap.kv, 1, heap.g[p].k)])
       \/ /\ heap.g[p].pc = "reading"
          /\ heap.g[p].raced
          /\ LockStep([heap EXCEPT
                !.g[p].pc = IF fatal THEN "fatal" ELSE "idle",
                !.g[p].got = any])

\* ctx.vx.ml.Unlock()
GoUnlock(p) ==
    /\ Running(heap)
    /\ heap.g[p].pc = "unlock"
    /\ LockStep([heap EXCEPT !.ml = 0, !.g[p].pc = "idle"])

NextLock ==
    \E p \in Procs :
        \/ \E c \in GoCalls : GoCall(p, c)
        \/ GoLock(p)
        \/ GoAccess(p)
        \/ \E fatal \in BOOLEAN, any \in {0} \cup Values :
                GoAccessed(p, fatal, any)
        \/ GoUnlock(p)

SpecLock == Init /\ [][NextLock]_vars

(***************************************************************************)
(* SpecNode: a widget obtains a node from the pool and writes attributes   *)
(* and classes on it, in any order, with AddAttr, AddRole, AddBoolAttr and *)
(* AddClasses, as long as the node holds fewer than MaxAttrs attributes    *)
(* and a class string of fewer than MaxClassLen bytes.                     *)
(***************************************************************************)
MaxAttrs == 3
MaxClassLen == 4

\* the class lists given to AddClasses: none, one or two classes
ClassLists == {<< >>, <<StrC>>, <<StrK>>, <<StrC, StrK>>}

\* a call on the node: the pool becomes b.nodes, the engine is not involved
NodeStep(b) ==
    /\ nodes' = b.nodes
    /\ UNCHANGED <<gen, cnt, et, buf, vx, cf, nd, wpc, act, senders, cpc, prog,
                   jsgen, incrank, ser, last, closed, jspc, hist, heap, shim,
                   npool, k0>>

\* the pool and the counter, as the node functions take them
Pool == [nodes |-> nodes, cnt |-> cnt, log |-> hist.issued]

NodeGetNode ==
    /\ nodes = << >>
    /\ NodeStep(GetNode(Pool, TagDiv))

NodeAddAttr(name, value) ==
    /\ nodes # << >>
    /\ Len(nodes[1].Attrs) < MaxAttrs
    /\ NodeStep(AddAttr(Pool, 1, name, value))

NodeAddRole(role) ==
    /\ nodes # << >>
    /\ Len(nodes[1].Attrs) < MaxAttrs
    /\ NodeStep(AddRole(Pool, 1, role))

NodeAddBoolAttr(key, val) ==
    /\ nodes # << >>
    /\ Len(nodes[1].Attrs) < MaxAttrs
    /\ NodeStep(AddBoolAttr(Pool, 1, key, val))

NodeAddClasses(cls) ==
    /\ nodes # << >>
    /\ Len(nodes[1].Classes) < MaxClassLen
    /\ NodeStep(AddClasses(Pool, 1, Join(cls)))

NextNode ==
    \/ NodeGetNode
    \/ \E name \in {StrA, StrB}, value \in {Str1, Str2} :
            NodeAddAttr(name, value)
    \/ \E role \in {Str1, Str2} : NodeAddRole(role)
    \/ \E key \in {StrA, StrB}, val \in BOOLEAN : NodeAddBoolAttr(key, val)
    \/ \E cls \in ClassLists : NodeAddClasses(cls)

SpecNode == Init /\ [][NextNode]_vars

(***************************************************************************)
(* SpecPool: any sequence of GetNode and FreePool calls, the caller        *)
(* writing on the node it obtained (an identity, a handler, an attribute,  *)
(* a child; serialize sets visited), as long as the pool has allocated at  *)
(* most MaxChunks arrays.                                                  *)
(***************************************************************************)
\* a call on the pool: it becomes p, the engine is not involved
PoolStep(p) ==
    /\ npool' = p
    /\ UNCHANGED <<gen, cnt, et, buf, vx, cf, nodes, nd, wpc, act, senders,
                   cpc, prog, jsgen, incrank, ser, last, closed, jspc, hist,
                   heap, shim, k0>>

\* the next GetNode makes a new array
Allocates(p) ==
    p.chain[Len(p.chain)].len + 1 = ChunkCap /\ p.free = << >>

PoolGetNode(tag) ==
    /\ Allocates(npool) => npool.nalloc < MaxChunks
    /\ PoolStep(getNode(npool, tag))

\* what the caller and the pass leave in a node
Used(node) ==
    [node EXCEPT !.Entity = 1, !.visited = TRUE, !.hdl[Click] = 1,
                 !.Attrs = <<[Name |-> StrA, Value |-> Str1]>>,
                 !.Children = <<1>>]

PoolWrite ==
    /\ npool.out # << >>
    /\ PoolStep([npool EXCEPT !.mem[npool.got.slot[1]][npool.got.slot[2]] =
                                 Used(@)])

PoolFreePool == PoolStep(freePool(npool))

NextPool ==
    \/ \E tag \in {TagDiv, TagNothing} : PoolGetNode(tag)
    \/ PoolWrite
    \/ PoolFreePool

SpecPool == Init /\ [][NextPool]_vars

(***************************************************************************)
(* SpecKeep: a widget that, during one build, obtains nodes and keeps them *)
(* under keys, distinct and repeated, as ExampleKeep does: a node it has   *)
(* given an identity to, or a node without identity.                       *)
(***************************************************************************)
\* calls of Keep in a build
MaxKept == 5

\* nd := Get(...), or nd := Get(...).GiveKey(ctx)
KeepNode(keyed) ==
    IF keyed
    THEN GiveKey(GetNode([nodes |-> nodes, cnt |-> cnt, log |-> hist.issued],
                         TagDiv), Len(nodes) + 1)
    ELSE GetNode([nodes |-> nodes, cnt |-> cnt, log |-> hist.issued], TagDiv)

KeepStep(r) ==
    /\ nodes' = r.b.nodes
    /\ cnt' = r.b.cnt
    /\ hist' = [hist EXCEPT !.issued = r.b.log]
    /\ k0' = r.k0
    /\ UNCHANGED <<gen, et, buf, vx, cf, nd, wpc, act, senders, cpc, prog,
                   jsgen, incrank, ser, last, closed, jspc, heap, shim,
                   npool>>

\* nd := ...; Keep[T](ctx, nd)
CallKeep(typ, keyed) ==
    /\ Len(nodes) < MaxKept
    /\ KeepStep(Keep(KeepNode(keyed), k0, typ, Len(nodes) + 1))

NextKeep == \E typ \in KeepKeys, keyed \in BOOLEAN : CallKeep(typ, keyed)

SpecKeep == Init /\ [][NextKeep]_vars

(***************************************************************************)
(* SpecElem: the first render cycle, the root widget building every tree   *)
(* of at most MaxElems elements and transparent nodes, the elements with   *)
(* or without key, handler, classes, text and attributes.                  *)
(***************************************************************************)
\* nodes of a tree of SpecElem
MaxElems == 3

NextElem ==
    \/ DrawAndLoopPrime
    \/ \E a \in senders : Recv(a)
    \/ Act
    \/ Build(ElemPlans(MaxElems))
    \/ Serialize
    \/ Age
    \/ Publish
    \/ ReleaseXAS
    \/ Draw
    \/ Continue

SpecElem == Init /\ [][NextElem]_vars

(***************************************************************************)
(* Properties.  A cycle in flight has wpc in InCycle; the pass of the      *)
(* cycle has ended when ser is set, and the generation it built is et.g0   *)
(* until the aging, with the previous generation still in et.g1.           *)
(***************************************************************************)
InCycle == {"act", "build", "serialize", "age"}

NoDup(s) == \A i, j \in DOMAIN s : s[i] = s[j] => i = j

PassDone == wpc = "age" /\ ser.err = ""

\* C1: an interaction whose stamp differs from the engine's generation is
\* dropped: no handler is invoked, the state is not changed, the worker goes
\* on to the continuation without building or serializing, and the
\* generation is the one the action was run at.
C1_StaleDropped ==
    (last.kind = "intent" /\ last.stale) =>
        /\ last.h = 0
        /\ vx = last.vx
        /\ wpc = "cont"
        /\ ser = NoSer
        /\ gen = last.gen

\* C2 as stated: at every point of a serialization pass (after each write
\* to the current generation) the entity values of the current and of the
\* previous generation are disjoint.
C2_DisjointAtEveryPoint ==
    \A i \in DOMAIN ser.pts :
        Range(ser.pts[i].ntts) \cap Ents(et.g1) = {}

\* C2, amended: after each completed operation on the entity tree (an add,
\* a whole reuse) of a pass, and at the end of the pass, the entity values
\* of the current and of the previous generation are disjoint.
C2_DisjointAfterEachOperation ==
    /\ \A i \in DOMAIN ser.pts :
          ser.pts[i].done => Range(ser.pts[i].ntts) \cap Ents(et.g1) = {}
    /\ ser # NoSer => Ents(et.g0) \cap Ents(et.g1) = {}

\* a pass that reused a subtree of two records, after a pass of the other
\* parity
C2_Witness ==
    /\ PassDone /\ gen = 2
    /\ \E i \in DOMAIN ser.spl : ser.spl[i].n >= 2
    /\ Len(et.g0) >= 2 /\ Len(et.g1) >= 2

\* the handler of the innermost record, from the record at i outward along
\* the enclosing entities, that has a handler for the type t (0: none)
RECURSIVE InnermostHandler(_, _, _)
InnermostHandler(g, i, t) ==
    IF g[i].hdl[t] # 0 THEN g[i].hdl[t]
    ELSE IF g[i].up = 0 THEN 0
    ELSE InnermostHandler(g, i - g[i].up, t)

\* C3: for an interaction whose stamp matches, the handler invoked is the one
\* of the innermost record, the entity's own first and then each enclosing
\* entity outward, with a handler for the type; with none on the chain no
\* handler is invoked and the cycle is skipped: no build, no pass, the same
\* generation and state.
C3_InnermostHandlerInvoked ==
    (last.kind = "intent" /\ ~last.stale /\ last.res # "panic") =>
        /\ gen = last.gen =>
              LET i == CHOOSE k \in DOMAIN et.g1 : et.g1[k].ntt = cf.Entity
              IN  last.h = InnermostHandler(et.g1, i, cf.IntentType)
        /\ last.h = 0 => /\ wpc = "cont"
                         /\ ser = NoSer
                         /\ gen = last.gen
                         /\ vx = last.vx

\* the handler invoked is not on the entity's own record but on an
\* enclosing one, and the cycle goes on to build
C3_Witness ==
    /\ wpc = "build" /\ last.kind = "intent" /\ ~last.stale /\ last.h # 0
    /\ \E k \in DOMAIN et.g1 :
          /\ et.g1[k].ntt = cf.Entity
          /\ et.g1[k].hdl[cf.IntentType] = 0
          /\ et.g1[k].up # 0

\* the record at j is the record at i or lies below it in the node tree
RECURSIVE Under(_, _, _)
Under(g, j, i) ==
    IF j = i THEN TRUE
    ELSE IF g[j].up = 0 THEN FALSE
    ELSE Under(g, j - g[j].up, i)

\* C4: after a completed pass every record i of the generation built has a
\* span s >= 1 that stays within the buffer, the records i..i+s-1 are
\* exactly the records of the subtree rooted at i, and spans are nested.
C4_SpansAreSubtrees ==
    PassDone =>
        LET g == et.g0
        IN  \A i \in DOMAIN g :
              /\ g[i].scp >= 1
              /\ i + g[i].scp - 1 <= Len(g)
              /\ \A j \in DOMAIN g :
                    (i <= j /\ j < i + g[i].scp) <=> Under(g, j, i)
              /\ \A j \in DOMAIN g :
                    (i < j /\ j < i + g[i].scp) =>
                        j + g[j].scp <= i + g[i].scp

\* a pass that spliced a reused subtree of two records below a new record
C4_Witness ==
    /\ PassDone
    /\ \E i \in DOMAIN ser.spl : ser.spl[i].n >= 2 /\ ser.spl[i].start >= 1
    /\ Len(et.g0) >= 3 /\ et.g0[1].scp = 3

\* the pairs (old, new) of the records whose identity changed, in order
RECURSIVE ChangedPairs(_, _)
ChangedPairs(olds, ids) ==
    IF olds = << >> THEN << >>
    ELSE (IF Head(olds) # Head(ids) THEN << <<Head(olds), Head(ids)>> >>
          ELSE << >>) \o ChangedPairs(Tail(olds), Tail(ids))

C6_ReuseKeepsHandlers ==
    PassDone =>
        \A x \in DOMAIN ser.spl :
            LET r == ser.spl[x]
                at == CHOOSE k \in DOMAIN et.g1 \cup {0} :
                        \/ k # 0 /\ et.g1[k].ntt = r.from
                        \/ k = 0 /\ r.n = 0
                t == ngen(et)
            IN  r.n >= 1 =>
                  /\ \A i \in 1..r.n :
                        /\ et.g0[r.start + i].hdl = et.g1[at + i - 1].hdl
                        /\ et.g0[r.start + i].scp = et.g1[at + i - 1].scp
                  /\ locate(t.g1, r.to) # 0
                  /\ Head(parents(t.g1, r.to)).hdl = et.g1[at].hdl

\* the third cycle reuses the subtree that the second cycle had reused from
\* the first, where the handlers were attached
C6_Witness ==
    /\ PassDone /\ gen = 2
    /\ Len(ser.spl) = 1 /\ ser.spl[1].n = 2
    /\ prog # << >> /\ prog[1] = OpReuse
    /\ et.g0[1].hdl[Drop] # 0 /\ et.g0[2].hdl[Click] # 0

\* C7: the program of a cycle decodes, with the consumer's operand counts
\* and length-prefixed strings, to the instructions the pass emitted and then
\* one terminate, the only one, and the decoding ends at the last byte; so
\* does every program the consumer holds.
C7_ProgramDecodes ==
    /\ PassDone =>
          LET d == buildView(buf)
          IN  /\ d.err = "" /\ d.term
              /\ d.ip = Len(buf)
              /\ d.ins = Append(ser.ins, <<OpTerm, << >> >>)
              /\ \A i \in DOMAIN ser.ins : ser.ins[i][1] # OpTerm
    /\ cpc \in {"copy", "draw"} =>
          LET d == buildView(prog)
          IN  /\ d.err = "" /\ d.term
              /\ d.ip = Len(prog)
              /\ \A i \in DOMAIN d.ins :
                    d.ins[i][1] = OpTerm <=> i = Len(d.ins)

\* a published program with a reuse, a rename (two operands) and an element
C7_Witness ==
    /\ cpc = "draw"
    /\ LET d == buildView(prog)
       IN  /\ \E i \in DOMAIN d.ins : d.ins[i][1] = OpReID
           /\ \E i \in DOMAIN d.ins : d.ins[i][1] = OpSetID
           /\ Len(d.ins) >= 6

\* the nodes the pass comes to from the nodes of todo: the children of
\* elements and of transparent nodes (the children of a reuse are not read)
RECURSIVE Reached(_, _, _)
Reached(ns, todo, seen) ==
    IF todo = {} THEN seen
    ELSE LET n == CHOOSE m \in todo : TRUE
             cs == IF ns[n].TagName = TagReuse THEN {}
                   ELSE Range(ns[n].Children)
         IN  Reached(ns, (todo \cup cs) \ (seen \cup {n}), seen \cup {n})

\* the children of a node with each transparent child replaced, in place, by
\* its own children so replaced
RECURSIVE Expand(_, _)
Expand(ns, cs) ==
    IF cs = << >> THEN << >>
    ELSE (IF ns[Head(cs)].TagName = TagNothing
          THEN Expand(ns, ns[Head(cs)].Children)
          ELSE <<Head(cs)>>) \o Expand(ns, Tail(cs))

\* the pool with the children of the transparent nodes placed directly
\* under the node that holds them, for the nodes whose children the pass
\* reads
Flatten(ns) ==
    [n \in 1..Len(ns) |->
        IF n \in Reached(ns, {1}, {}) /\ ns[n].TagName # TagReuse
        THEN [ns[n] EXCEPT !.Children = Expand(ns, ns[n].Children)]
        ELSE ns[n]]

\* C8: a transparent node adds no instruction and no record of its own: the
\* pass yields the program and the entity tree it yields with the children
\* of every transparent node placed directly under the node that holds it.
C8_NothingIsTransparent ==
    wpc = "serialize" =>
        LET s == serialize(nd, SerInit(nodes, et.g0, cnt, << >>), et.g1, 0)
        IN  s.err = "" =>
              LET f == serialize(nd, SerInit(Flatten(nodes), et.g0, cnt, << >>),
                                 et.g1, 0)
              IN  /\ f.err = ""
                  /\ f.vm = s.vm
                  /\ f.ins = s.ins
                  /\ f.g0 = s.g0
                  /\ f.cnt = s.cnt

\* an element holds a transparent node that holds a node with an entity
C8_Witness ==
    /\ wpc = "serialize" /\ Len(nodes) = 3
    /\ nodes[1].TagName = TagDiv
    /\ \E n \in Range(nodes[1].Children) :
          /\ nodes[n].TagName = TagNothing
          /\ \E c \in Range(nodes[n].Children) : Some(nodes[c].hdl)
    /\ serialize(nd, SerInit(nodes, et.g0, cnt, << >>), et.g1, 0).err = ""

\* the positions of the node n: the child slots that hold it
Positions(ns, n) ==
    {<<m, k>> \in Reached(ns, {1}, {}) \X (1..(Len(ns) + 1)) :
        /\ ns[m].TagName # TagReuse
        /\ k \in DOMAIN ns[m].Children
        /\ ns[m].Children[k] = n}

\* a node is at two positions of the tree of root 1, or the root is below
\* itself
Shared(ns) ==
    \/ Positions(ns, 1) # {}
    \/ \E n \in DOMAIN ns : Cardinality(Positions(ns, n)) >= 2

\* C9: a pass over a tree that holds the same node at two positions, or a
\* node below itself, ends with the fatal error "cycle detected"; a pass
\* over a tree of distinct nodes of the pool never raises it.
C9_CycleDetected ==
    ser # NoSer => (Shared(ser.nodes) <=> ser.err = "cycle detected")

\* a pass over a node that is its own descendant has ended the engine
C9_Witness ==
    /\ wpc = "crashed" /\ ser.err = "cycle detected"
    /\ \E n \in DOMAIN ser.nodes :
          \E c \in Range(ser.nodes[n].Children) :
              c # n /\ n \in Range(ser.nodes[c].Children)

\* C10: at most one execution of turncrank is under way, and the entity
\* tree, the generation, the counter and the buffer change only in a step
\* of the worker's cycle in flight.
C10_OneCycleAtATime ==
    /\ [](incrank <= 1)
    /\ [](incrank = 1 <=> wpc \in InCycle \cup {"crashed"})
    /\ [][(et' # et \/ gen' # gen \/ cnt' # cnt \/ buf' # buf) =>
            /\ wpc \in {"build", "serialize", "age", "waitfree"}
            /\ wpc' # wpc
            /\ senders' = senders]_vars

\* three goroutines are blocked in their sends, one of them in
\* ReactToIntent, while the second cycle is serializing
C10_Witness ==
    /\ wpc = "serialize" /\ incrank = 1 /\ gen = 1
    /\ Cardinality(senders) = 3
    /\ \E a \in senders : a.kind = "intent"

\* the programs published on XAS that the consumer has not returned
Outstanding == hist.pub - hist.ret

\* C11: the number of programs published minus the number of buffers
\* returned is 0 or 1 at every moment, and while it is 1 the worker takes no
\* action from the channel, starts no cycle and does not write to the
\* buffer: the buffer changes only in the step that returns it.
C11_OnePublishedBuffer ==
    /\ [](Outstanding \in {0, 1})
    /\ [][Outstanding = 1 =>
            /\ act' = act /\ senders \subseteq senders'
            /\ incrank' = incrank
            /\ gen' = gen /\ et' = et /\ cnt' = cnt
            /\ buf' # buf => hist'.ret = hist.ret + 1]_vars

\* the second program is with the consumer, which has not returned it,
\* while goroutines wait in their sends on Actions
C11_Witness ==
    /\ Outstanding = 1 /\ hist.pub = 2
    /\ cpc = "copy" /\ prog = buf
    /\ Cardinality(senders) >= 2

\* the action of the cycle in flight is an interaction, and it has run
IntentRun == act.kind = "intent" /\ last.kind = "intent"

\* C12: staleness is decided when the worker runs the action: a handler is
\* invoked only when the stamp equals the generation the action is run at,
\* and an interaction whose stamp was current when ReactToIntent was called
\* is stale, its handler not invoked and the state untouched, when a cycle
\* has completed before its action is run.
C12_StaleAtProcessing ==
    IntentRun =>
        /\ last.stale <=> act.cf.Gen # last.gen
        /\ last.h # 0 => act.cf.Gen = last.gen
        /\ (act.at = act.cf.Gen /\ last.gen # act.at) =>
               /\ last.stale /\ last.h = 0
               /\ wpc = "build" => vx = last.vx /\ cf = NoFrame

\* an interaction raised on the rendered view with the current stamp has
\* been found stale, a cycle having completed while it waited
C12_Witness ==
    /\ IntentRun /\ wpc = "build"
    /\ act.at = act.cf.Gen /\ act.at >= 1
    /\ last.gen = act.at + 1 /\ last.stale

FromSeed(log, seed) ==
    /\ \A i \in DOMAIN log : log[i] = (IF i = 1 THEN seed ELSE log[i - 1]) + 2
    /\ \A i, j \in DOMAIN log : i < j => log[i] < log[j]

\* C14: within a generation the counter issues strictly increasing
\* identifiers, each 2 more than the one before, from a seed equal to the
\* parity of the generation, and it holds the last one issued; the
\* identifiers issued in a generation and in the one before never coincide,
\* and 0 is never issued.
C14_CounterIssuesByParity ==
    /\ FromSeed(hist.issued, gen % 2)
    /\ cnt = (gen % 2) + 2 * Len(hist.issued)
    /\ gen >= 1 => FromSeed(hist.prev, (gen - 1) % 2)
    /\ Range(hist.issued) \cap Range(hist.prev) = {}
    /\ 0 \notin Range(hist.issued) \cup Range(hist.prev)

\* the second generation has been issued a key, a courtesy identity and an
\* identity for a reused record, after the first was issued identifiers too
C14_Witness ==
    /\ PassDone /\ gen = 1 /\ hist.prev # << >>
    /\ Len(hist.issued) >= 3
    /\ \E n \in DOMAIN ser.nodes :
          /\ ser.nodes[n].hdl[Drop] # 0
          /\ ser.nodes[n].Entity \in Range(hist.issued)
    /\ \E n \in DOMAIN ser.nodes :
          /\ ser.nodes[n].hdl[Click] # 0
          /\ ser.nodes[n].Entity \in Range(hist.issued)
    /\ \E k \in DOMAIN ser.spl :
          \E i \in DOMAIN ser.spl[k].ids :
              i > 1 /\ ser.spl[k].ids[i] \in Range(hist.issued)

\* the instructions the claim C15 lists for the tree of root n, from the
\* nodes before the pass (pre) and the identities they hold after it (post)
RECURSIVE Listed(_, _, _)
RECURSIVE ListedChildren(_, _, _, _)
ListedChildren(pre, post, cs, i) ==
    IF i > Len(cs) THEN << >>
    ELSE Listed(pre, post, cs[i]) \o ListedChildren(pre, post, cs, i + 1)

Listed(pre, post, n) ==
    IF pre[n].TagName = TagNothing
    THEN ListedChildren(pre, post, pre[n].Children, 1)
    ELSE <<<<OpCreateElement, <<pre[n].TagName>>>>>>
         \o (IF pre[n].Classes # << >>
             THEN <<<<OpSetClass, <<pre[n].Classes>>>>>> ELSE << >>)
         \o (IF pre[n].Entity # 0 \/ Some(pre[n].hdl)
             THEN <<<<OpSetID, <<FormatUint(post[n].Entity)>>>>>> ELSE << >>)
         \o [j \in DOMAIN pre[n].Attrs |->
                <<OpSetAttr, <<pre[n].Attrs[j].Name, pre[n].Attrs[j].Value>>>>]
         \o (IF pre[n].Text # << >>
             THEN <<<<OpAddText, <<pre[n].Text>>>>>> ELSE << >>)
         \o ListedChildren(pre, post, pre[n].Children, 1)
         \o <<<<OpNext, << >>>>>>

IsSetID(in) == in[1] = OpSetID

\* C15: for the elements of a tree without reuse the pass emits
\* create-element, set-class iff there are classes, set-id iff the node has
\* an identity (its key, or the courtesy identity minted for a node with a
\* handler and no key), one set-attribute per attribute in declaration
\* order, add-text iff there is a text, the instructions of the children in
\* order and one advance-to-sibling; the records of the entity tree are,
\* in order, the identities of the set-id instructions, so that a tree with
\* no identity and no handler yields no set-id and no record.
C15_ElementInstructions ==
    wpc = "serialize" =>
        LET s == serialize(nd, SerInit(nodes, et.g0, cnt, << >>), et.g1, 0)
            ids == SelectSeq(s.ins, IsSetID)
        IN  /\ s.err = ""
            /\ s.ins = Listed(nodes, s.nodes, nd)
            /\ \A n \in DOMAIN nodes :
                  /\ nodes[n].Entity # 0 => s.nodes[n].Entity = nodes[n].Entity
                  /\ (nodes[n].Entity = 0 /\ Some(nodes[n].hdl)) =>
                        s.nodes[n].Entity \in Range(s.log)
                  /\ (nodes[n].Entity = 0 /\ ~Some(nodes[n].hdl)) =>
                        s.nodes[n].Entity = 0
            /\ Len(s.g0) = Len(ids)
            /\ \A i \in DOMAIN ids : ids[i][2] = <<FormatUint(s.g0[i].ntt)>>
            /\ (\A n \in DOMAIN nodes :
                   nodes[n].Entity = 0 /\ ~Some(nodes[n].hdl)) =>
                  ids = << >> /\ s.g0 = << >>

\* the pass has serialized an element with classes, a courtesy identity,
\* two attributes and a text over two children, one keyed and one with
\* neither key nor handler: twelve instructions and two records
C15_Witness ==
    /\ PassDone /\ Len(nodes) = 3 /\ Len(hist.issued) = 2
    /\ nodes[1].Classes # << >> /\ nodes[1].Text # << >>
    /\ Len(nodes[1].Attrs) = 2
    /\ Some(nodes[1].hdl) /\ nodes[1].Entity = hist.issued[2]
    /\ nodes[1].Children = <<2, 3>>
    /\ nodes[2].TagName = TagDiv /\ nodes[2].Entity = hist.issued[1]
    /\ nodes[3].TagName = TagDiv /\ nodes[3].Entity = 0
    /\ Len(ser.ins) = 12 /\ Len(ser.g0) = 2
    /\ ser.ins[3] = <<OpSetID, <<FormatUint(nodes[1].Entity)>>>>

\* the positions of the instructions of opcode code, in order
Pos(ins, code) ==
    LET Is(i) == ins[i][1] = code
    IN  SelectSeq([i \in DOMAIN ins |-> i], Is)

\* the nodes of the tree, of a given tag or elements, that the pass comes to
Visited(ns, tags) ==
    {n \in Reached(ns, {1}, {}) : ns[n].TagName \in tags}

Elements(ns) ==
    {n \in Reached(ns, {1}, {}) : ns[n].TagName \notin {TagReuse, TagNothing}}

\* C16: for the k-th reuse node of a pass the serializer emits reuse(from)
\* followed by exactly the reassign-id instructions of the calls of the
\* rename callback, in record order; it emits no create-element, no set-id
\* and no advance-to-sibling for the node (the pass has one of each per
\* element, set-id for those with an identity) and does not visit the
\* children of the node.
C16_ReuseInstructions ==
    PassDone =>
        LET ps == Pos(ser.ins, OpReuse)
        IN  /\ Len(ps) = Len(ser.spl)
            /\ Len(ps) = Cardinality(Visited(ser.nodes, {TagReuse}))
            /\ \A k \in DOMAIN ps :
                  LET r == ser.spl[k]
                      end == ps[k] + Len(r.ren)
                  IN  /\ ser.ins[ps[k]] = <<OpReuse, <<FormatUint(r.from)>>>>
                      /\ end <= Len(ser.ins)
                      /\ \A j \in DOMAIN r.ren :
                            ser.ins[ps[k] + j] =
                                <<OpReID, <<FormatUint(r.ren[j][1]),
                                            FormatUint(r.ren[j][2])>>>>
                      /\ end < Len(ser.ins) => ser.ins[end + 1][1] # OpReID
            /\ Len(Pos(ser.ins, OpReID)) = Len(ser.ren)
            /\ Len(Pos(ser.ins, OpCreateElement)) = Cardinality(Elements(ser.nodes))
            /\ Len(Pos(ser.ins, OpNext)) = Cardinality(Elements(ser.nodes))
            /\ Len(Pos(ser.ins, OpSetID)) =
                  Cardinality({n \in Elements(ser.nodes) : ser.nodes[n].Entity # 0})
            /\ \A n \in DOMAIN ser.nodes :
                  ser.nodes[n].visited <=> n \in Reached(ser.nodes, {1}, {})

\* a reuse node below the root, with a child of its own, has been
\* serialized: two records renamed, and the child not visited
C16_Witness ==
    /\ PassDone /\ Len(ser.nodes) = 3
    /\ ser.nodes[1].TagName = TagDiv
    /\ ser.nodes[2].TagName = TagReuse /\ ser.nodes[2].Children = <<3>>
    /\ ~ser.nodes[3].visited
    /\ Len(ser.spl) = 1 /\ Len(ser.spl[1].ren) = 2
    /\ Len(ser.ins) = 5

\* the worker is about to run an interaction whose stamp is the current
\* generation and whose entity has no record in the previous generation
UnknownEntity ==
    /\ wpc = "act" /\ act.kind = "intent"
    /\ act.cf.Gen = gen
    /\ act.cf.Entity \notin Ents(et.g1)

\* C17: an interaction whose stamp matches and whose entity has no record
\* ends the engine with a fatal error that leaves the cycle: no handler
\* runs and the state is untouched in that step, and afterwards the worker
\* takes no step, publishes no program and advances neither the generation
\* nor the entity tree.
C17_UnknownEntityIsFatal ==
    /\ [][(UnknownEntity /\ wpc' # wpc) =>
            /\ wpc' = "crashed" /\ last'.res = "panic"
            /\ last'.h = 0 /\ vx' = vx
            /\ UNCHANGED <<gen, et, cnt, buf, prog, hist, shim, npool, k0>>]_vars
    /\ [][wpc = "crashed" =>
            /\ hist'.pub = hist.pub
            /\ UNCHANGED <<wpc, act, gen, et, cnt, buf, prog, vx, senders, shim,
                           npool, k0>>]_vars

\* the engine has ended on a click on an entity the rendered view does
\* not have, after one render cycle
C17_Witness ==
    /\ wpc = "crashed" /\ last.res = "panic" /\ last.kind = "intent"
    /\ act.cf.Gen = gen /\ gen = last.gen
    /\ act.cf.Entity \notin Ents(et.g1)
    /\ gen >= 1 /\ hist.pub = gen

\* C18: once Seppuku has been received the worker takes no action from the
\* channel and no program is published, and a cycle in flight ends without
\* a fatal error: its publication does not panic.
C18_ShutdownStopsTheDriver ==
    /\ [][closed => ~(wpc = "idle" /\ wpc' = "act")]_vars
    /\ [][closed => hist'.pub = hist.pub]_vars
    /\ [][(closed /\ wpc = "publish") => wpc' # "crashed"]_vars

\* the worker sends the reply of an interaction with a continuation whose
\* cycle has published a program
Reply ==
    /\ wpc = "cont" /\ wpc' = "idle"
    /\ cf.Cont /\ gen = last.gen + 1

\* C19: the reply of an interaction's continuation is sent only after the
\* consumer has drawn the program of the interaction's cycle: at the reply
\* every published program has been drawn.
C19_ReplyAfterDraw ==
    [][Reply => hist.drawn = hist.pub /\ jsgen = gen]_vars

\* C20: after c2 = WithValue(c1, v), reading the key on c2 yields v, and
\* reading it on c1, or on any other context held before the call (the
\* engine's stored state among them), yields the value it had before.
C20_WithValueHides ==
    heap.call.n >= 1 =>
        LET c == heap.call
        IN  /\ ValueOf(heap.kv, heap.held[c.c2], c.k) = c.v
            /\ \A i \in DOMAIN c.before :
                  ValueOf(heap.kv, heap.held[i], c.k) = c.before[i][c.k]

(***************************************************************************)
(* C21.  Concurrent use of one context: every access to the map, the reads *)
(* of ValueOf as well as the writes of WithValue and Mutate, happens while *)
(* holding the context lock, so no read of the map overlaps a write.       *)
(* ValueOf takes no lock (context.go:76): a goroutine reads the map while  *)
(* another one, holding the lock, writes it.                               *)
(***************************************************************************)
C21_NoReadOverlapsWrite ==
    /\ \A p \in Accessing(heap, "reading") \cup Accessing(heap, "writing") :
            heap.ml = p
    /\ Accessing(heap, "reading") = {} \/ Accessing(heap, "writing") = {}


\* the value of the type k after the mutators ms, v its value before: the
\* mutators of k applied to it one after the other
RECURSIVE Mutated(_, _, _)
Mutated(ms, k, v) ==
    IF ms = << >> THEN v
    ELSE Mutated(Tail(ms), k, IF Head(ms).k = k THEN Call(Head(ms), v) ELSE v)

C23_OneAttrPerName ==
    nodes # << >> =>
        \A i, j \in DOMAIN nodes[1].Attrs :
            nodes[1].Attrs[i].Name = nodes[1].Attrs[j].Name => i = j

\* C24: AddClasses with an empty class list leaves the class string of the
\* node unchanged, whether the node has classes or not.  On a node that
\* has classes the call appends a space.
C24_EmptyAddClassesIsNoOp ==
    [][NodeAddClasses(<< >>) => nodes'[1].Classes = nodes[1].Classes]_vars


\* C25: the shim hands an event to the engine (updateGo) only if the
\* generation captured when the event was raised is the shim's generation
\* at the delivery; an event whose captured generation differs by then is
\* dropped: the engine is not called, the JavaScript thread goes on.
C25_StaleEventIsDropped ==
    [][shim.mxevent /\ ~shim'.mxevent /\ shim.evt.Gen # jsgen
          => senders' = senders /\ jspc' = jspc /\ shim'.done = "drop"]_vars

\* an event raised on the view of one generation was dropped after a draw
\* had moved the view to the next
C25_Witness ==
    /\ shim.done = "drop"
    /\ shim.evt.Gen = 1
    /\ jsgen = 2


\* C26: a cycle that completes (the aging step of turncrank) leaves in the
\* previous-generation buffer exactly the records its serialization
\* appended (the current buffer is empty when the pass starts), an empty
\* current buffer, the generation increased by 1, the counter at the new
\* generation's parity, the state the action returned as the stored
\* state, and an empty node pool.
C26_CompletedCycle ==
    /\ [](wpc \in {"idle", "act", "build", "serialize"} => et.g0 = << >>)
    /\ [][wpc = "age" /\ wpc' = "publish"
            => /\ et.g0 = ser.g0
               /\ et'.g1 = ser.g0
               /\ et'.g0 = << >>
               /\ gen' = gen + 1
               /\ cnt' = gen' % 2
               /\ vx' = IF last.h # 0 /\ Mutates(last.h)
                         THEN last.vx + 1 ELSE last.vx
               /\ nodes' = << >>]_vars

\* the second cycle, of a mutating action, has completed: two records of
\* its pass are the previous generation
C26_Witness ==
    /\ wpc = "publish" /\ gen = 2
    /\ Len(et.g1) = 2 /\ et.g0 = << >>
    /\ cnt = 0 /\ vx = 1 /\ nodes = << >>



\* C27: from the start of a cycle to its aging step the previous-generation
\* buffer is not modified (add, addHandler, closeScope and reuse write to
\* the current buffer only), so a cycle aborted by a fatal error leaves the
\* previous generation and the generation counter as they were and
\* publishes no program, then or later.
C27_PreviousGenerationFrame ==
    [][/\ et'.g1 # et.g1 => wpc = "age" /\ wpc' = "publish"
       /\ wpc' = "crashed"
            => et'.g1 = et.g1 /\ gen' = gen /\ prog' = prog
                /\ hist'.pub = hist.pub]_vars

\* the second pass has reused records of the first and has opened records
\* of its own, and has ended in a fatal error: the previous generation is
\* there, the generation is 1, one program was published
C27_Witness ==
    /\ wpc = "crashed" /\ ser.err # ""
    /\ ser.spl # << >>
    /\ Len(et.g0) >= 2
    /\ Len(et.g1) >= 2
    /\ gen = 1 /\ hist.pub = 1


\* the place of the i-th operand of an instruction added to vm: the
\* number of bytes before its length prefix
RECURSIVE OperandAt(_, _, _)
OperandAt(vm, val, i) ==
    IF i = 1 THEN Len(vm) + 1
    ELSE OperandAt(vm, val, i - 1) + 2 + Len(val[i - 1])

\* C28: for every string operand of every instruction added, the
\* big-endian 16-bit length prefix is the number of operand bytes written
\* after it, whatever the length of the operand.  The prefix of an operand
\* of 65,536 bytes or more is its length modulo 65,536, and all its bytes
\* are written.
C28_PrefixIsOperandLength ==
    [][\A code \in {OpSetClass, OpAddText, OpSetAttr},
          val \in OperandLists(ShortLens \cup LongLens) :
            XASAddInstr(code, val) =>
                \A i \in DOMAIN val :
                    LET at == OperandAt(buf, val, i)
                    IN  /\ buf'[at + 1] * 256 + buf'[at + 2] = Len(val[i])
                        /\ Slice(buf', at + 2, at + 2 + Len(val[i])) = val[i]
      ]_vars


\* C29: no record with an entity value of 10240 or more is stored in a
\* generation, whether add opens it or reuse introduces it.  reuse renames
\* the records it copies without the assertion of add: a reuse node whose
\* identity is 10240 leaves a record of that value in the generation.
C29_NoRecordAtCapacity ==
    /\ \A i \in DOMAIN et.g0 : et.g0[i].ntt < EntityCap
    /\ \A i \in DOMAIN et.g1 : et.g1[i].ntt < EntityCap


\* C30: the reuse of an entity that has no record in the previous
\* generation is rejected with the fatal error "reusing invalid entity":
\* no reuse completes with zero records copied.  The assertion of reuse
\* compares a length with -1 and children returns nil for such an entity:
\* the reuse copies nothing and the pass goes on.
C30_InvalidReuseIsFatal ==
    \A x \in DOMAIN ser.spl :
        ser.spl[x].n = 0 => ser.err = "reusing invalid entity"


\* C31: aging releases the handler references of the discarded
\* generation: no slot of the storage of the new, empty current buffer,
\* nor later any slot of it not yet written again, holds a handler.
\* clear(t.g0) is called on a slice already cut to no element and zeroes
\* nothing: the array keeps the records of the discarded generation.
C31_AgingReleasesHandlers ==
    \A i \in DOMAIN et.mem : i > Len(et.g0) => ~Some(et.mem[i].hdl)


\* the arrays of the chunks of a list
Arrays(chunks) == {chunks[i].arr : i \in DOMAIN chunks}

\* C32: FreePool gives up no backing storage: after any sequence of
\* GetNode and FreePool calls every array allocated so far is in the
\* active chain or on the free list.  FreePool replaces the free list by
\* the tail of the chain: the chunks that were still free are dropped.
C32_NoChunkGivenUp ==
    1..npool.nalloc = Arrays(npool.chain) \cup Arrays(npool.free)

\* C33: between two FreePool calls no two GetNode calls return the same
\* slot; the node returned has the requested tag, no identity, no handler,
\* a cleared visited flag, no attribute and no child, whatever the slot
\* held; and a chunk of the chain has a successor exactly when it is full.
C33_FreshDistinctNodes ==
    /\ \A i, j \in DOMAIN npool.out : npool.out[i] = npool.out[j] => i = j
    /\ npool.got.slot # << >> =>
          /\ npool.got.node.TagName = npool.got.tag
          /\ npool.got.node.Entity = 0
          /\ ~Some(npool.got.node.hdl)
          /\ ~npool.got.node.visited
          /\ npool.got.node.Attrs = << >>
          /\ npool.got.node.Children = << >>
    /\ \A i \in DOMAIN npool.chain :
          i < Len(npool.chain) <=> npool.chain[i].len = ChunkCap

\* a slot that was used in an earlier cycle, in a chunk taken back from
\* the free list, has been returned again, for another tag
C33_Witness ==
    /\ npool.got.slot = <<2, 1>>
    /\ npool.got.tag = TagNothing
    /\ npool.mem[2][1] = NewNode(TagNothing)
    /\ npool.mem[2][2] = Used(NewNode(TagDiv))
    /\ npool.nalloc = 3


(***************************************************************************)
(* C34.  Replies.  The worker is the only sender on the reply channel of   *)
(* an interaction, and it sends at the end of the processing of the        *)
(* interaction's action (engine.go:72-74), when the call frame it holds    *)
(* carries a channel: the reply of an interaction is sent at that step or  *)
(* never.  do returns before ng.CallFrame = cf when the interaction is     *)
(* stale (engine.go:153-156), the worker then holds the cleared call frame *)
(* and sends nothing: JSUpdate waits on the channel for ever.              *)
(***************************************************************************)
\* the worker ends the processing of an interaction that was submitted with
\* a reply channel
Processed ==
    /\ wpc = "cont" /\ wpc' = "idle"
    /\ act.kind = "intent" /\ act.cf.Cont

\* C34: every interaction submitted with a reply channel receives a reply on
\* it, whether its action leads to a rendered cycle, returns NoAction or is
\* found stale: the caller that waits on the channel is released when the
\* worker is done with the interaction.
C34_EveryInteractionIsReplied ==
    [][Processed => jspc = "wait" /\ jspc' = "run"]_vars


(***************************************************************************)
(* SpecLive: the engine, its consumer and goroutines of the application    *)
(* that send actions, mutating or not, at any time from the construction   *)
(* of the engine on, with the scheduling of the Go runtime: a goroutine    *)
(* that can take a step takes it, a rendezvous on a channel with both      *)
(* parties present happens, and the senders blocked on Actions are served  *)
(* in turn (the channel's wait queue is first in, first out).              *)
(***************************************************************************)
\* goroutines blocked on the Actions channel at one time
LivePending == 2

\* the actions the producers of SpecLive send
LiveActs == {PrimeAct, AppAct(1), AppAct(2)}

\* the render cycles run and still to be run for the actions sent so far
Cycles ==
    gen + Cardinality({a \in senders : a.kind = "prime" \/ Mutates(a.h)})
        + (IF wpc \in {"act", "build", "serialize", "age"} THEN 1 ELSE 0)
        + (IF cpc = "start" THEN 1 ELSE 0)

\* a producer sends an action while the cycles asked for stay below the
\* bound MaxGen of the receive, so that the bound never stops the worker
SendLive(h) ==
    /\ Mutates(h) => Cycles < MaxGen - 1
    /\ Room(LivePending)
    /\ SendAction(h)

NextLive ==
    \/ DrawAndLoopPrime
    \/ \E h \in {1, 2} : SendLive(h)
    \/ \E a \in senders : Recv(a)
    \/ Act
    \/ Build(RacePlans)
    \/ Serialize
    \/ Age
    \/ Publish
    \/ ReleaseXAS
    \/ Draw
    \/ Continue

\* the consumer receives every published program, returns every buffer and
\* draws; the worker and the goroutine of DrawAndLoop run.  Serialize is
\* enabled exactly when wpc = "serialize" and every step of it leaves that
\* position, as Draw is and does with cpc = "draw": their weak fairness is
\* written out as []<>~ENABLED, which spares the evaluation of the
\* serializer and of the decoder under ENABLED.
LiveFair ==
    /\ WF_vars(DrawAndLoopPrime)
    /\ \A a \in LiveActs : SF_vars(Recv(a))
    /\ WF_vars(Act)
    /\ WF_vars(Build(RacePlans))
    /\ []<>(wpc # "serialize")
    /\ WF_vars(Age)
    /\ WF_vars(Publish)
    /\ WF_vars(ReleaseXAS)
    /\ []<>(cpc # "draw")
    /\ WF_vars(Continue)

SpecLive == Init /\ [][NextLive]_vars /\ LiveFair

(***************************************************************************)
(* C35.  No deadlock.  The worker sends a program on the unbuffered XAS    *)
(* (engine.go:62) and DrawAndLoop sends its priming action on the          *)
(* unbuffered Actions (update_js.go:71) before it starts to receive from   *)
(* XAS: when the worker has taken a rendering action of another goroutine  *)
(* first, each of the two waits for the other to receive.                  *)
(***************************************************************************)
\* C35: with a consumer that receives every published program and returns
\* every buffer, every action enqueued on the Actions channel is eventually
\* executed and its producer unblocked, and the driver returns to idle.
C35_EveryActionIsExecuted ==
    /\ \A a \in LiveActs : (a \in senders) ~> (a \notin senders)
    /\ (wpc # "idle") ~> (wpc = "idle")


\* the property from the priming of the loop on: once DrawAndLoop's priming
\* action has been received every action enqueued is executed and the
\* driver returns to idle
ExecutedOncePrimed ==
    /\ \A a \in LiveActs : (a \in senders /\ cpc = "range") ~> (a \notin senders)
    /\ (wpc # "idle" /\ cpc = "range") ~> (wpc = "idle")


(***************************************************************************)
(* C36.  The two generation counters.  The engine counts a generation when *)
(* the cycle ends (engine.go:132), the consumer when it replays the        *)
(* terminate instruction of the cycle's program.  DrawAndLoop returns the  *)
(* buffer before it calls the draw function (update_js.go:75-76), so the   *)
(* worker is free to run the next cycle while the program of the last one  *)
(* is still to be replayed.                                                *)
(***************************************************************************)
\* C36: the consumer's and the engine's generation counters stay in step:
\* consumer generation <= engine generation <= consumer generation + 1 at
\* all times, and they are equal whenever the driver is idle and every
\* published program has been replayed.
C36_GenerationsInStep ==
    /\ jsgen <= gen
    /\ gen <= jsgen + 1
    /\ (wpc = "idle" /\ hist.drawn = hist.pub) => jsgen = gen


(***************************************************************************)
(* C37.  Brackets.  serialize emits OpCreateElement when it enters an      *)
(* element and OpNext when it leaves it (render.go:262, 297), and neither  *)
(* for a reuse or a transparent node.  The consumer moves its cursor to    *)
(* the new element on the first and to the parent on the second            *)
(* (engine.go:448-454, 509-512): the depth of the cursor below the root is *)
(* the number of the first less the number of the second.                  *)
(***************************************************************************)
\* the depth of the consumer's cursor after the first k instructions
Depth(ins, k) ==
    Cardinality({i \in 1..k : ins[i][1] = OpCreateElement})
        - Cardinality({i \in 1..k : ins[i][1] = OpNext})

Balanced(ins) ==
    /\ \A k \in 0..Len(ins) : Depth(ins, k) >= 0
    /\ Depth(ins, Len(ins)) = 0

RECURSIVE KeptAt(_, _)
KeptAt(list, typ) ==
    IF list = << >> THEN << >>
    ELSE (IF Head(list).key = typ THEN <<Head(list).val>> ELSE << >>)
            \o KeptAt(Tail(list), typ)

\* C38: Keep[T](ctx, nd) records nd's identity under key T, minting one if
\* nd has none, and changes no other key: after any sequence of Keep calls
\* the kept list holds exactly one entry for each key ever kept, carrying
\* the identity of the latest Keep for that key (and none for other keys).
C38_OneEntryPerKeptKey ==
    \A typ \in KeepKeys :
        KeptAt(k0.list, typ) =
            IF k0.kept[typ] = 0 THEN << >> ELSE <<k0.kept[typ]>>

=============================================================================
